---- MODULE Spec2Model ----
(***************************************************************************)
(* Live-call core of dealsense-ai: the Session Repository                  *)
(* (storage/call_repository.py), the side store and Transcript Buffer      *)
(* (storage/redis_client.py), the Connection Multiplexer                   *)
(* (websocket/connection_manager.py), the Call Orchestrator                *)
(* (websocket/live_call_handler.py) and the connection read loop and REST  *)
(* call endpoints (api.py).                                                *)
(*                                                                         *)
(* Every `await` of the handlers is a point where another coroutine may    *)
(* run; the code between two awaits is one atomic action.                  *)
(***************************************************************************)
EXTENDS Integers, Sequences, FiniteSets, TLC

\* ---------------------------------------------------------------- bounds
MaxCalls == 2          \* Call records create_call may add
MaxConns == 2          \* WebSocket connections ever opened
LifeConns == 1         \* of these, the connections opened in the lifecycle specification
MaxEvents == 2         \* inbound events and REST end-call requests served
MaxTime == 2           \* last clock tick
TicksPerSecond == 2    \* clock ticks per second (datetime has sub-second resolution)
NumPhrases == 2        \* length of the mock transcription script
MaxBufferChunks == 2   \* max_chunks of the Transcript Buffer
ScenarioChunks == 3    \* audio_chunk events of the end-to-end scenario
MaxOffset == 1         \* largest start offset of a buffered chunk, in seconds

None == -1
NoCall == 0

\* bounds of the Extraction Pipeline
MaxDay == 6            \* last day a call or an extraction falls on: one week
MaxExtracted == 11     \* well-formed action items in a model reply
MaxLines == 2          \* lines of a model reply that is no JSON
MaxScore == 15         \* largest deal-health score a model reports
MaxBelow == 3          \* the smallest one is this far below zero

\* constants of the Extraction Pipeline
MinTranscriptChars == 50
MinTaskChars == 10
MaxItems == 10
DefaultDueDays == 7
DefaultScore == 5
MinScoreKept == 1
MaxScoreKept == 10
Friday == 4             \* datetime.weekday() of a Friday
Monday == 0             \* datetime.weekday() of a Monday

\* uuid4() issues 1..MaxCalls; ExternalIds are UUIDs a client made up itself
IssuedIds == 1..MaxCalls
ExternalIds == {MaxCalls + 1}
CallIds == IssuedIds \cup ExternalIds
Conns == 1..MaxConns

EventTypes == {"start_call", "audio_chunk", "push_to_talk_query", "end_call", "unknown"}

VARIABLES
    now,          \* the latest value datetime.utcnow() returned, in ticks
    calls,        \* CallRepository._calls_cache
    createdFor,   \* history: per Call record, the identifier of the start_call that created it (NoCall: REST)
    transcripts,  \* CallRepository._transcripts_cache
    summaries,    \* CallRepository._summaries_cache
    actionItems,  \* CallRepository._action_items_cache
    rmeta,        \* side store  call:{id}:metadata
    rstatus,      \* side store  call:{id}:status
    rbuffer,      \* side store  call:{id}:transcript_buffer
    trackers,     \* TranscriptionService._sequence_trackers / _time_trackers
    active,       \* ConnectionManager._active_connections
    connection_metadata,  \* the keys of ConnectionManager._connection_metadata
    all_connections,      \* ConnectionManager._all_connections
    alive,        \* per connection: the client's socket is still open
    connCall,     \* per connection: the call_id of its URL
    pc,           \* per connection: position of websocket_call_endpoint / the handler it awaits
    cur,          \* per connection: message type of the event being handled
    received,     \* per connection: events returned by receive_json so far
    bcasts,       \* per connection: the broadcast_to_call its handler is suspended in
    bcastLog,     \* history: the events broadcast_to_call was invoked with, in invocation order
    inbox,        \* per connection: indices into bcastLog of the events sent to it, in send order
    bgTasks,      \* BackgroundTasks scheduled by the REST end-call endpoint
    restEnds,     \* REST end-call requests served so far
    limits,       \* this run: the events the clients send and the length of the mock script
    logged,       \* lines LiveCallHandler has written to the log with logger.error
    redisTime,    \* the clock of the durable store, in half time-to-lives
    memLists,     \* InMemoryRedis._lists: per transcript_buffer key, its list or NoList
    redisLists,   \* the list keys of the durable store, each with its expiry deadline
    appended,     \* history: per backend and key, the chunks appended since the entry was last emptied
    writers,      \* per writer process: its position in add_transcript_chunk on the durable store
    invoked,      \* the entry point of the Extraction Pipeline this run invokes, with its arguments
    returned      \* what that invocation returned or raised

bufVars == <<redisTime, memLists, redisLists, appended, writers>>
pipeVars == <<invoked, returned>>

\* what no handler of the live-call core writes
fixedVars == <<limits, bufVars, pipeVars>>

coreVars == <<now, calls, createdFor, transcripts, summaries, actionItems, rmeta, rstatus,
              rbuffer, trackers, active, connection_metadata, all_connections, alive,
              connCall, pc, cur, received, bcasts, bcastLog, inbox, bgTasks, restEnds,
              limits, logged>>

vars == <<coreVars, bufVars, pipeVars>>

repoVars == <<calls, createdFor, transcripts, summaries, actionItems>>
redisVars == <<rmeta, rstatus, rbuffer>>
registryVars == <<active, connection_metadata, all_connections>>
muxVars == <<registryVars, bcasts, bcastLog, inbox>>
loopVars == <<alive, connCall, pc, cur, received>>
restVars == <<bgTasks, restEnds, fixedVars, logged>>

\* ----------------------------------------------------------------- clock

\* the values datetime.utcnow() can return at this point: the clock does not run backwards
Clock == now..MaxTime

\* ------------------------------------------------------------ repository

\* int((ended_at - started_at).total_seconds()): int() truncates toward zero
DurationTicks(started, ended) == ended - started

DurationSeconds(started, ended) ==
    IF ended >= started THEN (ended - started) \div TicksPerSecond
    ELSE 0 - ((started - ended) \div TicksPerSecond)

\* index of the first record with this id, 0 when there is none
FindCall(cs, id) ==
    IF \E i \in 1..Len(cs) : cs[i].id = id
    THEN CHOOSE i \in 1..Len(cs) : cs[i].id = id /\ \A j \in 1..(i - 1) : cs[j].id # id
    ELSE 0

HasCall(cs, id) == FindCall(cs, id) # 0

GetCall(cs, id) == cs[FindCall(cs, id)]

\* uuid4(): an identifier no record and no client has used
FreshId(cs) == Len(cs) + 1

NewCall(cs, t) ==
    [id |-> FreshId(cs), started_at |-> t, ended_at |-> None,
     duration_seconds |-> None, status |-> "in_progress"]

CreateCall(cs, t) == Append(cs, NewCall(cs, t))

EndedCallMissingTimestamp(r, t) ==
    [r EXCEPT !.duration_seconds = DurationSeconds(r.started_at, t),
              !.status = "ended"]

EndedCall(r, t) ==
    [r EXCEPT !.ended_at = t,
              !.duration_seconds = DurationSeconds(r.started_at, t),
              !.status = "ended"]

RepoEndCall(cs, id, t) ==
    IF HasCall(cs, id)
    THEN [cs EXCEPT ![FindCall(cs, id)] = EndedCall(@, t)]
    ELSE cs

RepoSetSummarizedSkipped(cs, id) == cs

RepoSetSummarized(cs, id) ==
    IF HasCall(cs, id)
    THEN [cs EXCEPT ![FindCall(cs, id)] = [@ EXCEPT !.status = "summarized"]]
    ELSE cs

RECURSIVE SelectCall(_, _)
SelectCall(s, id) ==
    IF s = <<>> THEN <<>>
    ELSE IF Head(s).call_id = id THEN <<Head(s)>> \o SelectCall(Tail(s), id)
         ELSE SelectCall(Tail(s), id)

\* get_full_transcript_text is "" exactly when the call has no stored chunk
HasTranscript(ts, id) == SelectCall(ts, id) # <<>>

FindSummary(ss, id) ==
    IF \E i \in 1..Len(ss) : ss[i].call_id = id
    THEN CHOOSE i \in 1..Len(ss) : ss[i].call_id = id /\ \A j \in 1..(i - 1) : ss[j].call_id # id
    ELSE 0

CreateSummaryAlwaysAppends(ss, id, content) == Append(ss, [call_id |-> id, content |-> content])

\* create_summary: update the existing summary of the call, else append one
CreateSummary(ss, id, content) ==
    IF FindSummary(ss, id) # 0
    THEN [ss EXCEPT ![FindSummary(ss, id)] = [@ EXCEPT !.content = content]]
    ELSE Append(ss, [call_id |-> id, content |-> content])

PersistedWhateverFinality(ts, chunk) == Append(ts, chunk)

\* _on_transcript_chunk: if is_final, repository.add_transcript_chunk
Persisted(ts, chunk) == IF chunk.is_final THEN Append(ts, chunk) ELSE ts

CreateActionItemsBatch(items, id, n) ==
    items \o [k \in 1..n |-> [call_id |-> id, status |-> "pending"]]


\* ------------------------------------------------------------ side store

Max(a, b) == IF a >= b THEN a ELSE b

\* rpush, then ltrim(key, -max_chunks, -1)
BufferAppend(buf, chunk, maxChunks) ==
    LET l == Append(buf, chunk)
    IN SubSeq(l, Max(0, Len(l) - maxChunks) + 1, Len(l))

\* --------------------------------------------------------- transcription

\* len(text.split()) / 2.5 for the phrase at this position of the script, in ticks
PhraseDuration(seq) == (1 + (seq % 2)) * TicksPerSecond

\* the 0.5 s gap the mock leaves between phrases, in ticks
PhraseGap == TicksPerSecond \div 2

MockChunk(id, tr) ==
    [call_id |-> id, seq |-> tr.seq, start_time |-> tr.time,
     end_time |-> tr.time + PhraseDuration(tr.seq), is_final |-> TRUE]

\* ----------------------------------------------------------- multiplexer

NoBcast == [k |-> 0, call |-> NoCall, idx |-> 0, target |-> 0, ok |-> TRUE,
            stale |-> FALSE, disc |-> <<>>, members |-> <<>>]

RECURSIVE RemoveFirst(_, _)
RemoveFirst(s, x) ==
    IF s = <<>> THEN <<>>
    ELSE IF Head(s) = x THEN Tail(s) ELSE <<Head(s)>> \o RemoveFirst(Tail(s), x)

\* ConnectionManager.disconnect on the registry
Disconnect(act, ws, id) ==
    IF id \in DOMAIN act
    THEN LET l == RemoveFirst(act[id], ws)
         IN IF l = <<>>
            THEN [x \in (DOMAIN act) \ {id} |-> act[x]]
            ELSE [act EXCEPT ![id] = l]
    ELSE act

Elems(l) == {l[i] : i \in 1..Len(l)}

\* connect: a call that has no entry gets its metadata with its list
ConnectMetadata(md, act, id) == IF id \in DOMAIN act THEN md ELSE md \cup {id}

DisconnectMetadataKept(md, act, ws, id) == md

\* disconnect: the metadata goes with the entry when the list is left empty
DisconnectMetadata(md, act, ws, id) ==
    IF id \in DOMAIN act /\ RemoveFirst(act[id], ws) = <<>> THEN md \ {id} ELSE md

\* has_connections: bool(self._active_connections.get(call_id_str))
HasConnections(act, id) == id \in DOMAIN act /\ act[id] # <<>>

DisconnectRaisesUnguarded(act, ws, id) == id \notin DOMAIN act \/ ws \notin Elems(act[id])

\* ConnectionManager.disconnect raises: list.remove raises for an absent element,
\* and it is called only under `if call_id_str in ...` and `if websocket in ...`
DisconnectRaises(act, ws, id) ==
    /\ id \in DOMAIN act
    /\ ws \in Elems(act[id])
    /\ ws \notin Elems(act[id])

RECURSIVE DisconnectAllRaises(_, _, _)
DisconnectAllRaises(act, wss, id) ==
    IF wss = <<>> THEN FALSE
    ELSE \/ DisconnectRaises(act, Head(wss), id)
         \/ DisconnectAllRaises(Disconnect(act, Head(wss), id), Tail(wss), id)

RECURSIVE DisconnectAll(_, _, _)
DisconnectAll(act, wss, id) ==
    IF wss = <<>> THEN act
    ELSE DisconnectAll(Disconnect(act, Head(wss), id), Tail(wss), id)

RECURSIVE DisconnectAllMetadata(_, _, _, _)
DisconnectAllMetadata(md, act, wss, id) ==
    IF wss = <<>> THEN md
    ELSE DisconnectAllMetadata(DisconnectMetadata(md, act, Head(wss), id),
                               Disconnect(act, Head(wss), id), Tail(wss), id)

\* a broadcast iterates the list object it started on; once that list is
\* removed from the registry it stays empty, whatever is registered later
MarkStale(bs, act, act2) ==
    [o \in DOMAIN bs |->
        IF bs[o].k # 0 /\ bs[o].call \in DOMAIN act /\ bs[o].call \notin DOMAIN act2
        THEN [bs[o] EXCEPT !.stale = TRUE]
        ELSE bs[o]]

DeliverAtHead(inb, ws, k) == IF alive[ws] THEN [inb EXCEPT ![ws] = <<k>> \o @] ELSE inb

\* connection.send_json(message) is called: the event goes out when the socket is open
Deliver(inb, ws, k) == IF alive[ws] THEN [inb EXCEPT ![ws] = Append(@, k)] ELSE inb

\* the event envelopes of the send_* helpers; status carries the status of a
\* status_update and the title of an error
Event(type, id, status, owner) ==
    [type |-> type, call |-> id, status |-> status, owner |-> owner,
     seq |-> None, final |-> FALSE]

\* send_transcript_chunk
ChunkEvent(chunk, owner) ==
    [type |-> "transcript_chunk", call |-> chunk.call_id, status |-> "", owner |-> owner,
     seq |-> chunk.seq, final |-> chunk.is_final]

\* broadcast_to_call up to its first await
BroadcastToCall(o, id, msg) ==
    LET k == Len(bcastLog) + 1
    IN /\ bcastLog' = Append(bcastLog, msg)
       /\ UNCHANGED registryVars
       /\ IF id \notin DOMAIN active
          THEN /\ bcasts' = bcasts
               /\ inbox' = inbox
          ELSE LET t == active[id][1]
               IN /\ bcasts' = [bcasts EXCEPT ![o] =
                                   [k |-> k, call |-> id, idx |-> 1, target |-> t,
                                    ok |-> alive[t], stale |-> FALSE, disc |-> <<>>,
                                    members |-> active[id]]]
                  /\ inbox' = Deliver(inbox, t, k)

FinalPcAwaitingSend(id) == "ret"

\* the handler's position once its last broadcast was invoked
FinalPc(id) == IF id \in DOMAIN active THEN "ret" ELSE "recv"
FinalCur(id, type) == IF id \in DOMAIN active THEN type ELSE "none"

\* one await connection.send_json(...) of broadcast_to_call completes
BroadcastResume(o) ==
    /\ bcasts[o].k # 0
    /\ LET b == bcasts[o]
           disc2 == IF b.ok THEN b.disc ELSE Append(b.disc, b.target)
           lst == IF b.stale \/ b.call \notin DOMAIN active THEN <<>> ELSE active[b.call]
       IN IF b.idx + 1 <= Len(lst)
          THEN LET t == lst[b.idx + 1]
               IN /\ bcasts' = [bcasts EXCEPT ![o] =
                                   [b EXCEPT !.idx = b.idx + 1, !.target = t,
                                             !.ok = alive[t], !.disc = disc2]]
                  /\ inbox' = Deliver(inbox, t, b.k)
                  /\ UNCHANGED <<registryVars, pc, cur>>
          ELSE LET act2 == DisconnectAll(active, disc2, b.call)
               IN /\ active' = act2
                  /\ connection_metadata' =
                         DisconnectAllMetadata(connection_metadata, active, disc2, b.call)
                  /\ all_connections' = all_connections \ Elems(disc2)
                  /\ bcasts' = [MarkStale(bcasts, active, act2) EXCEPT ![o] = NoBcast]
                  /\ inbox' = inbox
                  /\ pc' = [pc EXCEPT ![o] =
                               IF DisconnectAllRaises(active, disc2, b.call) THEN "raised"
                               ELSE IF @ = "ret" THEN "recv" ELSE @]
                  /\ cur' = [cur EXCEPT ![o] = IF pc'[o] = "recv" THEN "none" ELSE @]
    /\ UNCHANGED <<now, repoVars, redisVars, trackers, alive, connCall, received,
                   bcastLog, restVars>>

\* ------------------------------------------------------------- read loop

RECURSIVE SumTo(_, _)
SumTo(f, n) == IF n = 0 THEN 0 ELSE f[n] + SumTo(f, n - 1)

TotalReceived == SumTo(received, MaxConns) + restEnds

AtReceiveWhileHandling(c) ==
    pc[c] \in {"recv", "ret"} /\ alive[c] /\ TotalReceived < limits.events

\* websocket_call_endpoint is in `await websocket.receive_json()` and a message arrives
AtReceive(c) == pc[c] = "recv" /\ alive[c] /\ TotalReceived < limits.events

Take(c, type) ==
    /\ received' = [received EXCEPT ![c] = @ + 1]
    /\ cur' = [cur EXCEPT ![c] = type]

\* connection_manager.connect
Connect(c, id) ==
    /\ pc[c] = "init"
    /\ \A d \in 1..(c - 1) : pc[d] # "init"
    /\ id \in ExternalIds \/ HasCall(calls, id)
    /\ active' = IF id \in DOMAIN active
                 THEN [active EXCEPT ![id] = Append(@, c)]
                 ELSE [x \in (DOMAIN active) \cup {id} |->
                          IF x = id THEN <<c>> ELSE active[x]]
    /\ connection_metadata' = ConnectMetadata(connection_metadata, active, id)
    /\ all_connections' = all_connections \cup {c}
    /\ alive' = [alive EXCEPT ![c] = TRUE]
    /\ connCall' = [connCall EXCEPT ![c] = id]
    /\ pc' = [pc EXCEPT ![c] = "recv"]
    /\ UNCHANGED <<now, repoVars, redisVars, trackers, cur, received, bcasts,
                   bcastLog, inbox, restVars>>

\* the client goes away; the server learns of it at its next receive or send
ClientDrop(c) ==
    /\ pc[c] \notin {"init", "closed"}
    /\ alive[c]
    /\ alive' = [alive EXCEPT ![c] = FALSE]
    /\ UNCHANGED <<now, repoVars, redisVars, trackers, connCall, pc, cur, received,
                   muxVars, restVars>>

\* receive_json raises WebSocketDisconnect
LoopDisconnect(c) ==
    /\ pc[c] = "recv"
    /\ ~alive[c]
    /\ LET act2 == Disconnect(active, c, connCall[c])
       IN /\ active' = act2
          /\ bcasts' = MarkStale(bcasts, active, act2)
    /\ connection_metadata' = DisconnectMetadata(connection_metadata, active, c, connCall[c])
    /\ all_connections' = all_connections \ {c}
    /\ pc' = [pc EXCEPT ![c] =
                 IF DisconnectRaises(active, c, connCall[c]) THEN "raised" ELSE "closed"]
    /\ UNCHANGED <<now, repoVars, redisVars, trackers, alive, connCall, cur, received,
                   bcastLog, inbox, restVars>>


\* ---------------------------------------------------------- orchestrator

\* existing_call and existing_call.status == CallStatus.IN_PROGRESS
IsReconnectOnlyWhenEnded(cs, id) == HasCall(cs, id) /\ GetCall(cs, id).status = "ended"

IsReconnect(cs, id) == HasCall(cs, id) /\ GetCall(cs, id).status = "in_progress"

\* _handle_start_call
HandleStartCall(c) ==
    /\ AtReceive(c)
    /\ LET id == connCall[c]
       IN /\ IF IsReconnect(calls, id)
             THEN UNCHANGED <<now, calls, createdFor, rmeta, rstatus>>
             ELSE /\ Len(calls) < MaxCalls
                  /\ \E t \in Clock :
                        /\ calls' = CreateCall(calls, t)
                        /\ rmeta' = [rmeta EXCEPT ![id] = t]
                        /\ now' = t
                  /\ createdFor' = Append(createdFor, id)
                  /\ rstatus' = [rstatus EXCEPT ![id] = "in_progress"]
          /\ BroadcastToCall(c, id, Event("status_update", id, "connected", c))
          /\ pc' = [pc EXCEPT ![c] = FinalPc(id)]
          /\ Take(c, FinalCur(id, "start_call"))
    /\ UNCHANGED <<transcripts, summaries, actionItems, rbuffer, trackers, alive,
                   connCall, restVars>>

\* _handle_audio_chunk up to the await inside process_audio_chunk
HandleAudioChunk(c) ==
    /\ AtReceive(c)
    /\ \E hasAudio \in BOOLEAN :
          IF hasAudio
          THEN /\ pc' = [pc EXCEPT ![c] = "transcribing"]
               /\ Take(c, "audio_chunk")
          ELSE /\ pc' = pc
               /\ Take(c, "none")
    /\ UNCHANGED <<now, repoVars, redisVars, trackers, alive, connCall, muxVars, restVars>>

LogErrorDropped(n) == n

\* logger.error(...) in an except clause of LiveCallHandler
LogError(n) == n + 1

\* the transcription collaborator resumes: _process_mock after its sleep, then
\* _on_transcript_chunk; or the collaborator raises and _handle_audio_chunk logs it.
\* final is the is_final argument of the callback: the collaborators of this
\* repository pass True, a streaming collaborator also delivers interim tuples
Transcribed(c) ==
    /\ pc[c] = "transcribing"
    /\ LET id == connCall[c]
           tr == trackers[id]
       IN \E raises \in BOOLEAN, final \in BOOLEAN :
             LET chunk == [MockChunk(id, tr) EXCEPT !.is_final = final] IN
             IF ~raises /\ tr.seq < limits.phrases
             THEN /\ trackers' = [trackers EXCEPT ![id] =
                                     [seq |-> tr.seq + 1, time |-> chunk.end_time + PhraseGap]]
                  /\ rbuffer' = [rbuffer EXCEPT ![id] = BufferAppend(@, chunk, MaxBufferChunks)]
                  /\ transcripts' = Persisted(transcripts, chunk)
                  /\ BroadcastToCall(c, id, ChunkEvent(chunk, c))
                  /\ pc' = [pc EXCEPT ![c] = FinalPc(id)]
                  /\ cur' = [cur EXCEPT ![c] = FinalCur(id, "audio_chunk")]
                  /\ logged' = logged
             ELSE /\ pc' = [pc EXCEPT ![c] = "recv"]
                  /\ cur' = [cur EXCEPT ![c] = "none"]
                  /\ logged' = IF raises THEN LogError(logged) ELSE logged
                  /\ UNCHANGED <<trackers, rbuffer, transcripts, muxVars>>
    /\ UNCHANGED <<now, calls, createdFor, summaries, actionItems, rmeta, rstatus, alive,
                   connCall, received, bgTasks, restEnds, fixedVars>>

QueryReplyNoErrorOnRaise(outcome, id, c) ==
    IF outcome = "empty" THEN Event("error", id, "Empty query", c)
    ELSE Event("query_response", id, "", c)

\* the event _handle_push_to_talk_query (or the except clause of handle_message)
\* answers a query with
QueryReply(outcome, id, c) ==
    CASE outcome = "empty" -> Event("error", id, "Empty query", c)
      [] outcome = "answer" -> Event("query_response", id, "", c)
      [] outcome = "raise" -> Event("error", id, "Query processing error", c)
      [] OTHER -> Event("error", id, "Message processing error", c)

\* _handle_push_to_talk_query: empty query, answer, the answering collaborator
\* raises, or the fallback of the ImportError branch raises (caught in handle_message)
HandleQuery(c) ==
    /\ AtReceive(c)
    /\ LET id == connCall[c]
       IN /\ \E outcome \in {"empty", "answer", "raise", "fallback_raise"} :
                /\ BroadcastToCall(c, id, QueryReply(outcome, id, c))
                /\ logged' = IF outcome \in {"raise", "fallback_raise"}
                             THEN LogError(logged) ELSE logged
          /\ pc' = [pc EXCEPT ![c] = FinalPc(id)]
          /\ Take(c, FinalCur(id, "push_to_talk_query"))
    /\ UNCHANGED <<now, repoVars, redisVars, trackers, alive, connCall, bgTasks,
                   restEnds, fixedVars>>

\* handle_message, unknown type
HandleUnknown(c) ==
    /\ AtReceive(c)
    /\ LET id == connCall[c]
       IN /\ BroadcastToCall(c, id, Event("error", id, "Unknown message type", c))
          /\ pc' = [pc EXCEPT ![c] = FinalPc(id)]
          /\ Take(c, FinalCur(id, "unknown"))
    /\ UNCHANGED <<now, repoVars, redisVars, trackers, alive, connCall, restVars>>

\* receive_json returns something that is not a JSON object (or raises on text
\* that is not JSON): message.get("type") raises outside the try of
\* handle_message, and the endpoint's `except Exception` disconnects and re-raises
HandleMalformed(c) ==
    /\ AtReceive(c)
    /\ Take(c, "malformed")
    /\ LET act2 == Disconnect(active, c, connCall[c])
       IN /\ active' = act2
          /\ bcasts' = MarkStale(bcasts, active, act2)
    /\ connection_metadata' = DisconnectMetadata(connection_metadata, active, c, connCall[c])
    /\ all_connections' = all_connections \ {c}
    /\ pc' = [pc EXCEPT ![c] = "closed"]
    /\ alive' = [alive EXCEPT ![c] = FALSE]
    /\ UNCHANGED <<now, repoVars, redisVars, trackers, connCall, bcastLog, inbox,
                   restVars>>

\* _handle_end_call up to the await of the "ended" status update
HandleEndCall(c) ==
    /\ AtReceive(c)
    /\ LET id == connCall[c]
       IN /\ \E t \in Clock :
                /\ calls' = RepoEndCall(calls, id, t)
                /\ now' = IF HasCall(calls, id) THEN t ELSE now
          /\ rstatus' = [rstatus EXCEPT ![id] = "ended"]
          /\ BroadcastToCall(c, id, Event("status_update", id, "ended", c))
          /\ pc' = [pc EXCEPT ![c] = "end_bc"]
          /\ Take(c, "end_call")
    /\ UNCHANGED <<createdFor, transcripts, summaries, actionItems, rmeta, rbuffer,
                   trackers, alive, connCall, restVars>>

SummaryFailureUnannounced(outcome, id, c) ==
    Event("status_update", id, "ended", c)

\* what a failed _generate_summary answers: `except ImportError` sends
\* status_update "summary_pending"; any other exception is re-raised and
\* _handle_end_call sends the error "Summary generation failed"
SummaryFailureEvent(outcome, id, c) ==
    IF outcome = "import_error"
    THEN Event("status_update", id, "summary_pending", c)
    ELSE Event("error", id, "Summary generation failed", c)

\* the rest of _handle_end_call: _generate_summary and its except clause; the
\* pipeline returns, the summarization module is missing, the pipeline or
\* create_summary raises, or create_action_items_batch raises
GenerateSummary(c) ==
    /\ pc[c] = "end_bc"
    /\ bcasts[c].k = 0
    /\ LET id == connCall[c]
       IN /\ IF ~HasTranscript(transcripts, id)
             THEN /\ BroadcastToCall(c, id, Event("error", id, "No transcript", c))
                  /\ UNCHANGED <<calls, summaries, actionItems, logged>>
             ELSE \E outcome \in {"ok", "import_error", "raise", "raise_items"} :
                    CASE outcome = "ok" ->
                           /\ summaries' = CreateSummary(summaries, id,
                                               Len(SelectCall(transcripts, id)))
                           /\ actionItems' = CreateActionItemsBatch(actionItems, id, 1)
                           /\ calls' = RepoSetSummarized(calls, id)
                           /\ BroadcastToCall(c, id, Event("summary_ready", id, "", c))
                           /\ logged' = logged
                      [] outcome = "raise_items" ->
                           /\ summaries' = CreateSummary(summaries, id,
                                               Len(SelectCall(transcripts, id)))
                           /\ BroadcastToCall(c, id, SummaryFailureEvent(outcome, id, c))
                           /\ logged' = LogError(LogError(logged))
                           /\ UNCHANGED <<calls, actionItems>>
                      [] OTHER ->
                           /\ BroadcastToCall(c, id, SummaryFailureEvent(outcome, id, c))
                           /\ logged' = IF outcome = "import_error" THEN LogError(logged)
                                        ELSE LogError(LogError(logged))
                           /\ UNCHANGED <<calls, summaries, actionItems>>
          /\ pc' = [pc EXCEPT ![c] = FinalPc(id)]
          /\ cur' = [cur EXCEPT ![c] = FinalCur(id, "end_call")]
    /\ UNCHANGED <<now, createdFor, transcripts, redisVars, trackers, alive, connCall,
                   received, bgTasks, restEnds, fixedVars>>

\* ------------------------------------------------------------------ REST

\* POST /api/calls/start
RestStartCall ==
    /\ Len(calls) < MaxCalls
    /\ \E t \in Clock :
          /\ calls' = CreateCall(calls, t)
          /\ now' = t
    /\ createdFor' = Append(createdFor, NoCall)
    /\ UNCHANGED <<transcripts, summaries, actionItems, redisVars, trackers,
                   loopVars, muxVars, restVars>>

\* POST /api/calls/{call_id}/end : 404 for an unknown call
RestEndCall(id) ==
    /\ TotalReceived < limits.events
    /\ HasCall(calls, id)
    /\ restEnds' = restEnds + 1
    /\ \E t \in Clock :
          /\ calls' = RepoEndCall(calls, id, t)
          /\ now' = t
    /\ bgTasks' = bgTasks \cup {[call_id |-> id, content |-> Len(SelectCall(transcripts, id))]}
    /\ UNCHANGED <<createdFor, transcripts, summaries, actionItems, redisVars,
                   trackers, loopVars, muxVars, fixedVars, logged>>

\* generate_summary_task of the REST end-call endpoint
RunSummaryTask(task) ==
    /\ task \in bgTasks
    /\ bgTasks' = bgTasks \ {task}
    /\ \E ok \in BOOLEAN :
          IF ok
          THEN /\ summaries' = CreateSummary(summaries, task.call_id, task.content)
               /\ actionItems' = CreateActionItemsBatch(actionItems, task.call_id, 1)
          ELSE UNCHANGED <<summaries, actionItems>>
    /\ UNCHANGED <<now, calls, createdFor, transcripts, redisVars, trackers, loopVars,
                   muxVars, restEnds, fixedVars, logged>>

\* --------------------------------------------------------- specification

\* what _load_json finds in the data files when the process starts: nothing, a
\* call a previous run left in progress, or a call a previous run summarized
PersistedRepos ==
    { [calls |-> <<>>, transcripts |-> <<>>, summaries |-> <<>>, items |-> <<>>],
      [calls |-> <<NewCall(<<>>, 0)>>, transcripts |-> <<>>, summaries |-> <<>>,
       items |-> <<>>],
      [calls |-> RepoSetSummarized(RepoEndCall(<<NewCall(<<>>, 0)>>, 1, 0), 1),
       transcripts |-> <<MockChunk(1, [seq |-> 0, time |-> 0])>>,
       summaries |-> CreateSummary(<<>>, 1, 1),
       items |-> CreateActionItemsBatch(<<>>, 1, 1)] }

InitAt(t0) ==
    /\ now = t0
    /\ \E repo \in PersistedRepos :
          /\ calls = repo.calls
          /\ createdFor = [i \in 1..Len(repo.calls) |-> NoCall]
          /\ transcripts = repo.transcripts
          /\ summaries = repo.summaries
          /\ actionItems = repo.items
    /\ rmeta = [id \in CallIds |-> None]
    /\ rstatus = [id \in CallIds |-> "none"]
    /\ rbuffer = [id \in CallIds |-> <<>>]
    /\ trackers = [id \in CallIds |-> [seq |-> 0, time |-> 0]]
    /\ active = [id \in {} |-> <<>>]
    /\ connection_metadata = {}
    /\ all_connections = {}
    /\ alive = [c \in Conns |-> FALSE]
    /\ connCall = [c \in Conns |-> NoCall]
    /\ pc = [c \in Conns |-> "init"]
    /\ cur = [c \in Conns |-> "none"]
    /\ received = [c \in Conns |-> 0]
    /\ bcasts = [c \in Conns |-> NoBcast]
    /\ bcastLog = <<>>
    /\ inbox = [c \in Conns |-> <<>>]
    /\ bgTasks = {}
    /\ restEnds = 0
    /\ logged = 0

\* the calls whose Transcript Buffer entries are modelled
BufKeyIds == {1, 2}

\* a run appends one chunk more than the buffer keeps; as many processes append at once
MaxAppends == MaxBufferChunks + 1
BufWriters == MaxBufferChunks + 1

IdleWriter == [pc |-> "idle", id |-> NoCall, chunk |-> None]
NoHistory == [id \in BufKeyIds |-> <<>>]

\* no Transcript Buffer run
BufferIdle ==
    /\ redisTime = 0
    /\ memLists = [k \in {} |-> <<>>]
    /\ redisLists = [k \in {} |-> <<>>]
    /\ appended = [mem |-> NoHistory, dur |-> NoHistory, total |-> 0]
    /\ writers = [p \in 1..BufWriters |-> IdleWriter]

\* what a function returns or raises
Ok(v) == [kind |-> "ok", value |-> v]
Raised(e) == [kind |-> "raise", value |-> e]

NoInvocation == [op |-> "none"]

\* no Extraction Pipeline run
PipelineIdle == invoked = NoInvocation /\ returned = Ok(<<>>)

\* a run in which the clients send up to e events and the mock script has p phrases
Limits(e, p) == [events |-> e, phrases |-> p]

Init == InitAt(0) /\ limits = Limits(MaxEvents, NumPhrases) /\ BufferIdle /\ PipelineIdle

\* the call lifecycle: every inbound event type and the REST call endpoints, over
\* connections that stay open
Next ==
    \/ RestStartCall
    \/ \E id \in CallIds : RestEndCall(id)
    \/ \E task \in bgTasks : RunSummaryTask(task)
    \/ \E c \in 1..LifeConns, id \in CallIds : Connect(c, id)
    \/ \E c \in Conns : HandleStartCall(c)
    \/ \E c \in Conns : HandleAudioChunk(c)
    \/ \E c \in Conns : Transcribed(c)
    \/ \E c \in Conns : HandleQuery(c)
    \/ \E c \in Conns : HandleUnknown(c)
    \/ \E c \in Conns : HandleMalformed(c)
    \/ \E c \in Conns : HandleEndCall(c)
    \/ \E c \in Conns : GenerateSummary(c)
    \/ \E c \in Conns : BroadcastResume(c)

Spec == Init /\ [][Next]_vars

\* the lifecycle under the event loop's scheduling: a handler whose awaited send has
\* completed, or that is about to go on into _generate_summary, is resumed
SpecLive ==
    /\ Spec
    /\ \A c \in Conns : WF_vars(BroadcastResume(c)) /\ WF_vars(GenerateSummary(c))

\* the multiplexer under connection loss: connections open, drop and are evicted
\* while handlers broadcast; the repository starts empty and the clock stands at
\* the end of the modelled window
InitMux == InitAt(MaxTime) /\ calls = <<>> /\ limits = Limits(MaxEvents, NumPhrases) /\ BufferIdle /\ PipelineIdle

NextMux ==
    \/ \E c \in Conns, id \in CallIds : Connect(c, id)
    \/ \E c \in Conns : ClientDrop(c)
    \/ \E c \in Conns : LoopDisconnect(c)
    \/ \E c \in Conns : HandleStartCall(c)
    \/ \E c \in Conns : HandleAudioChunk(c)
    \/ \E c \in Conns : Transcribed(c)
    \/ \E c \in Conns : HandleQuery(c)
    \/ \E c \in Conns : HandleEndCall(c)
    \/ \E c \in Conns : GenerateSummary(c)
    \/ \E c \in Conns : BroadcastResume(c)

SpecMux == InitMux /\ [][NextMux]_vars

\* eviction and detachment: connections of one call drop and are evicted while
\* transcription callbacks and extractions are in flight
InitEvict == InitAt(MaxTime) /\ calls = <<>> /\ limits = Limits(MaxEvents, NumPhrases) /\ BufferIdle /\ PipelineIdle

NextEvict ==
    \/ \E c \in Conns, id \in CallIds : Connect(c, id)
    \/ \E c \in Conns : ClientDrop(c)
    \/ \E c \in Conns : LoopDisconnect(c)
    \/ \E c \in Conns : HandleAudioChunk(c)
    \/ \E c \in Conns : Transcribed(c)
    \/ \E c \in Conns : HandleEndCall(c)
    \/ \E c \in Conns : GenerateSummary(c)
    \/ \E c \in Conns : BroadcastResume(c)

SpecEvict == InitEvict /\ [][NextEvict]_vars
\* the end-to-end scenario: one client connects, sends start_call, then
\* ScenarioChunks audio_chunk events, then end_call; the repository starts empty
\* and the script has one phrase per audio chunk
InitE2E == InitAt(0) /\ calls = <<>> /\ limits = Limits(ScenarioChunks + 2, ScenarioChunks) /\ BufferIdle /\ PipelineIdle

NextE2E ==
    \/ \E id \in CallIds : Connect(1, id)
    \/ received[1] = 0 /\ HandleStartCall(1)
    \/ received[1] \in 1..ScenarioChunks /\ HandleAudioChunk(1)
    \/ Transcribed(1)
    \/ received[1] = ScenarioChunks + 1 /\ HandleEndCall(1)
    \/ GenerateSummary(1)
    \/ BroadcastResume(1)

SpecE2E == InitE2E /\ [][NextE2E]_vars

\* ----------------------------------------------------- Transcript Buffer

\* time-to-live of a transcript_buffer entry, in ticks of redisTime (half time-to-lives)
TRANSCRIPT_BUFFER_TTL == 2

Speakers == {"Seller", "Buyer"}
Texts == {"hello"}
Offsets == 0..MaxOffset
Windows == 0..(MaxOffset + 1)

\* seller and buyer speak in turn
SpeakerAt(st) == IF st % 2 = 0 THEN "Seller" ELSE "Buyer"

\* the chunk_data _on_transcript_chunk stores: speaker, text and offsets in seconds;
\* every chunk lasts one second
BufChunks ==
    { [speaker |-> SpeakerAt(st), text |-> tx, start_time |-> st, end_time |-> st + 1] :
        tx \in Texts, st \in Offsets }

BufferKey(id) == <<"call", id, "transcript_buffer">>

\* json.dumps(chunk, default=str) and json.loads: the stored value is the text of the
\* object, its members in insertion order
JsonDumps(ch) == <<"{", ch.speaker, ch.text, ch.start_time, ch.end_time, "}">>
JsonLoads(j) == [speaker |-> j[2], text |-> j[3], start_time |-> j[4], end_time |-> j[5]]

Min(a, b) == IF a <= b THEN a ELSE b

\* lst[start:end] of Python
PySlice(lst, start, end) ==
    LET n == Len(lst)
        st == IF start < 0 THEN Max(0, n + start) ELSE Min(start, n)
        en == IF end < 0 THEN Max(0, n + end) ELSE Min(end, n)
    IN SubSeq(lst, st + 1, en)

\* dict.pop(key, None)
DictPop(d, key) == [k \in DOMAIN d \ {key} |-> d[k]]

\* the in-process backend
MemRpush(lists, key, value) ==
    IF key \in DOMAIN lists
    THEN [lists EXCEPT ![key] = Append(@, value)]
    ELSE (key :> <<value>>) @@ lists

MemLrange(lists, key, start, end) ==
    IF key \notin DOMAIN lists THEN <<>>
    ELSE LET lst == lists[key]
             en == IF end = -1 THEN Len(lst) ELSE end + 1
             st == IF start < 0 THEN Max(0, Len(lst) + start) ELSE start
         IN PySlice(lst, st, en)

MemLtrimForgotten(lists, key, start, end) == lists

MemLtrim(lists, key, start, end) ==
    IF key \notin DOMAIN lists THEN lists
    ELSE LET lst == lists[key]
             st == IF start < 0 THEN Max(0, Len(lst) + start) ELSE start
             en == IF end = -1 THEN Len(lst) ELSE end + 1
         IN [lists EXCEPT ![key] = PySlice(lst, st, en)]

\* expire is a no-op in the in-process backend
MemExpire(lists, key, ttl) == lists

MemDelete(lists, key) == DictPop(lists, key)

\* the durable backend: a key holds a list and may hold an expiry deadline; a key
\* whose deadline has passed, or whose list is empty, does not exist
RedisLive(lists, key, t) ==
    key \in DOMAIN lists /\ (lists[key].expires = None \/ t < lists[key].expires)

RedisItems(lists, key, t) == IF RedisLive(lists, key, t) THEN lists[key].items ELSE <<>>

\* the elements start..stop of a list, both ends inclusive, negative indices
\* counting from the tail
RedisRange(lst, start, stop) ==
    LET n == Len(lst)
        st == IF start < 0 THEN Max(0, n + start) ELSE start
        en == IF stop < 0 THEN n + stop ELSE Min(stop, n - 1)
    IN SubSeq(lst, st + 1, en + 1)

RedisStore(lists, key, items, expires) ==
    IF items = <<>> THEN DictPop(lists, key)
    ELSE (key :> [items |-> items, expires |-> expires]) @@ lists

RedisRpush(lists, key, value, t) ==
    IF RedisLive(lists, key, t)
    THEN RedisStore(lists, key, Append(lists[key].items, value), lists[key].expires)
    ELSE RedisStore(lists, key, <<value>>, None)

RedisLrange(lists, key, start, stop, t) == RedisRange(RedisItems(lists, key, t), start, stop)

RedisLtrimForgotten(lists, key, start, stop, t) == lists

RedisLtrim(lists, key, start, stop, t) ==
    IF RedisLive(lists, key, t)
    THEN RedisStore(lists, key, RedisRange(lists[key].items, start, stop), lists[key].expires)
    ELSE DictPop(lists, key)

RedisExpire(lists, key, ttl, t) ==
    IF RedisLive(lists, key, t)
    THEN [lists EXCEPT ![key].expires = t + ttl]
    ELSE DictPop(lists, key)

RedisDelete(lists, key) == DictPop(lists, key)

\* [json.loads(chunk) for chunk in chunks]
RECURSIVE LoadsEach(_)
LoadsEach(chunks) ==
    IF chunks = <<>> THEN <<>>
    ELSE <<JsonLoads(Head(chunks))>> \o LoadsEach(Tail(chunks))

\* RedisClient over the in-process backend
MemAddTranscriptChunk(lists, id, chunk, maxChunks) ==
    LET key == BufferKey(id)
        pushed == MemRpush(lists, key, JsonDumps(chunk))
        trimmed == MemLtrim(pushed, key, 0 - maxChunks, -1)
    IN MemExpire(trimmed, key, TRANSCRIPT_BUFFER_TTL)

MemGetTranscriptBuffer(lists, id) ==
    LET chunks == MemLrange(lists, BufferKey(id), 0, -1)
    IN LoadsEach(chunks)

MemClearTranscriptBuffer(lists, id) == MemDelete(lists, BufferKey(id))

\* RedisClient over the durable backend, its three commands served back to back
RedisAddTranscriptChunk(lists, id, chunk, maxChunks, t) ==
    LET key == BufferKey(id)
        pushed == RedisRpush(lists, key, JsonDumps(chunk), t)
        trimmed == RedisLtrim(pushed, key, 0 - maxChunks, -1, t)
    IN RedisExpire(trimmed, key, TRANSCRIPT_BUFFER_TTL, t)

RedisGetTranscriptBuffer(lists, id, t) ==
    LET chunks == RedisLrange(lists, BufferKey(id), 0, -1, t)
    IN LoadsEach(chunks)

RedisClearTranscriptBuffer(lists, id) == RedisDelete(lists, BufferKey(id))

\* max(chunk.get("end_time", 0) for chunk in chunks)
RECURSIVE LatestEnd(_)
LatestEnd(chunks) ==
    IF Len(chunks) = 1 THEN chunks[1].end_time
    ELSE Max(chunks[1].end_time, LatestEnd(Tail(chunks)))

\* the chunks at or after the cutoff, kept in list order
WithinWindowStrict(ch, cutoff) == ch.start_time > cutoff

WithinWindow(ch, cutoff) == ch.start_time >= cutoff

RECURSIVE RecentChunks(_, _)
RecentChunks(chunks, cutoff) ==
    IF chunks = <<>> THEN <<>>
    ELSE (IF WithinWindow(Head(chunks), cutoff) THEN <<Head(chunks)>> ELSE <<>>)
         \o RecentChunks(Tail(chunks), cutoff)

\* f"{speaker}: {text}"
SpeakerLine(ch) == <<ch.speaker, ": ", ch.text>>

RECURSIVE SpeakerLines(_)
SpeakerLines(chunks) ==
    IF chunks = <<>> THEN <<>>
    ELSE <<SpeakerLine(Head(chunks))>> \o SpeakerLines(Tail(chunks))

\* get_recent_transcript_text over the chunks get_transcript_buffer returned: the
\* lines that "\n".join puts together, no line for the empty string
GetRecentTranscriptText(chunks, windowSeconds) ==
    IF chunks = <<>> THEN <<>>
    ELSE LET latest_time == LatestEnd(chunks)
             cutoff_time == latest_time - windowSeconds
             recent_chunks == RecentChunks(chunks, cutoff_time)
         IN SpeakerLines(recent_chunks)

\* the queries of the two backends
MemAll(id) == MemGetTranscriptBuffer(memLists, id)
MemRecent(id, w) == GetRecentTranscriptText(MemAll(id), w)
RedisAll(id) == RedisGetTranscriptBuffer(redisLists, id, redisTime)
RedisRecent(id, w) == GetRecentTranscriptText(RedisAll(id), w)

AppendsMade == appended.total

\* one client appends the same chunk to both backends
BufAppend(id, chunk) ==
    /\ AppendsMade < MaxAppends
    /\ memLists' = MemAddTranscriptChunk(memLists, id, chunk, MaxBufferChunks)
    /\ redisLists' = RedisAddTranscriptChunk(redisLists, id, chunk, MaxBufferChunks, redisTime)
    /\ appended' = [mem |-> [appended.mem EXCEPT ![id] = Append(@, chunk)],
                    dur |-> [appended.dur EXCEPT ![id] = Append(@, chunk)],
                    total |-> appended.total + 1]
    /\ UNCHANGED <<coreVars, pipeVars, redisTime, writers>>

\* one client clears the entry of a call in both backends
BufClear(id) ==
    /\ memLists' = MemClearTranscriptBuffer(memLists, id)
    /\ redisLists' = RedisClearTranscriptBuffer(redisLists, id)
    /\ appended' = [appended EXCEPT !.mem[id] = <<>>, !.dur[id] = <<>>]
    /\ UNCHANGED <<coreVars, pipeVars, redisTime, writers>>

\* time passes; the durable store drops the entries whose deadline is reached
BufTick ==
    /\ redisTime < MaxTime
    /\ redisTime' = redisTime + 1
    /\ appended' = [appended EXCEPT !.dur =
                       [id \in BufKeyIds |->
                           IF RedisLive(redisLists, BufferKey(id), redisTime + 1)
                           THEN @[id] ELSE <<>>]]
    /\ UNCHANGED <<coreVars, pipeVars, memLists, redisLists, writers>>

\* a writer process enters add_transcript_chunk on the durable store
RaceChunk(p, speaker) ==
    [speaker |-> speaker, text |-> "hello", start_time |-> p, end_time |-> p + 1]

WriterCall(p, id, speaker) ==
    /\ writers[p].pc = "idle"
    /\ writers' = [writers EXCEPT ![p] = [pc |-> "rpush", id |-> id,
                                          chunk |-> RaceChunk(p, speaker)]]
    /\ UNCHANGED <<coreVars, pipeVars, redisTime, memLists, redisLists, appended>>

\* the store serves the writer's next command
WriterRpush(p) ==
    /\ writers[p].pc = "rpush"
    /\ redisLists' = RedisRpush(redisLists, BufferKey(writers[p].id),
                                JsonDumps(writers[p].chunk), redisTime)
    /\ writers' = [writers EXCEPT ![p].pc = "ltrim"]
    /\ UNCHANGED <<coreVars, pipeVars, redisTime, memLists, appended>>

WriterLtrim(p) ==
    /\ writers[p].pc = "ltrim"
    /\ redisLists' = RedisLtrim(redisLists, BufferKey(writers[p].id),
                                0 - MaxBufferChunks, -1, redisTime)
    /\ writers' = [writers EXCEPT ![p].pc = "expire"]
    /\ UNCHANGED <<coreVars, pipeVars, redisTime, memLists, appended>>

WriterExpire(p) ==
    /\ writers[p].pc = "expire"
    /\ redisLists' = RedisExpire(redisLists, BufferKey(writers[p].id),
                                 TRANSCRIPT_BUFFER_TTL, redisTime)
    /\ writers' = [writers EXCEPT ![p].pc = "done"]
    /\ UNCHANGED <<coreVars, pipeVars, redisTime, memLists, appended>>

\* the live-call core at rest
CoreIdle == InitAt(0) /\ calls = <<>> /\ limits = Limits(0, 0)

\* the Transcript Buffer on its own: one client issues the same appends and clears
\* to the in-process and to the durable backend while time passes
InitBuf == CoreIdle /\ BufferIdle /\ PipelineIdle

NextBuf ==
    \/ \E id \in BufKeyIds, chunk \in BufChunks : BufAppend(id, chunk)
    \/ \E id \in BufKeyIds : BufClear(id)
    \/ BufTick

SpecBuf == InitBuf /\ [][NextBuf]_vars

\* several processes append to the durable backend at once
InitRace == CoreIdle /\ BufferIdle /\ PipelineIdle

NextRace ==
    \/ \E p \in 1..BufWriters, id \in BufKeyIds, speaker \in Speakers : WriterCall(p, id, speaker)
    \/ \E p \in 1..BufWriters : WriterRpush(p)
    \/ \E p \in 1..BufWriters : WriterLtrim(p)
    \/ \E p \in 1..BufWriters : WriterExpire(p)

SpecRace == InitRace /\ [][NextRace]_vars

\* ------------------------------------------------ repository operations

\* the calls whose transcript, summary and action items a repository run writes
RepoIds == {1, 2}

\* a repository run stores at most this many chunks, this many action items and
\* this many generations of a summary
MaxStored == MaxCalls

\* [r for r in records if str(r.get("call_id")) != str(call_id)]
RECURSIVE RejectCall(_, _)
RejectCall(s, id) ==
    IF s = <<>> THEN <<>>
    ELSE IF Head(s).call_id # id THEN <<Head(s)>> \o RejectCall(Tail(s), id)
         ELSE RejectCall(Tail(s), id)

\* [c for c in calls if str(c.get("id")) != str(call_id)]
RECURSIVE RejectId(_, _)
RejectId(cs, id) ==
    IF cs = <<>> THEN <<>>
    ELSE IF Head(cs).id # id THEN <<Head(cs)>> \o RejectId(Tail(cs), id)
         ELSE RejectId(Tail(cs), id)

DeleteTranscriptsKept(ts, id) == ts

DeleteTranscriptsForCall(ts, id) == RejectCall(ts, id)

DeleteSummaryForCall(ss, id) == RejectCall(ss, id)

DeleteActionItemsForCall(items, id) == RejectCall(items, id)

\* the identifiers some record of the repository carries
IdsInUse ==
    {calls[i].id : i \in 1..Len(calls)}
        \cup {transcripts[i].call_id : i \in 1..Len(transcripts)}
        \cup {summaries[i].call_id : i \in 1..Len(summaries)}
        \cup {actionItems[i].call_id : i \in 1..Len(actionItems)}

RepoRest == <<now, redisVars, trackers, loopVars, muxVars, restVars>>

\* create_call; uuid4 issues an identifier no record carries
RepoCreateCall ==
    /\ Len(calls) < MaxCalls
    /\ FreshId(calls) \notin IdsInUse
    /\ calls' = CreateCall(calls, now)
    /\ createdFor' = Append(createdFor, NoCall)
    /\ UNCHANGED <<transcripts, summaries, actionItems, RepoRest>>

\* add_transcript_chunk: it does not look the call up
RepoAddTranscriptChunk(id) ==
    /\ Len(transcripts) < MaxStored
    /\ transcripts' = Append(transcripts, MockChunk(id, [seq |-> 0, time |-> 0]))
    /\ UNCHANGED <<calls, createdFor, summaries, actionItems, RepoRest>>

\* the data of the k-th summary generated for a call is k
NextContent(ss, id) == IF FindSummary(ss, id) # 0 THEN ss[FindSummary(ss, id)].content + 1 ELSE 1

\* create_summary with newly generated data
RepoCreateSummary(id) ==
    /\ NextContent(summaries, id) <= MaxStored
    /\ summaries' = CreateSummary(summaries, id, NextContent(summaries, id))
    /\ UNCHANGED <<calls, createdFor, transcripts, actionItems, RepoRest>>

\* create_action_items_batch with one item
RepoCreateActionItems(id) ==
    /\ Len(actionItems) < MaxStored
    /\ actionItems' = CreateActionItemsBatch(actionItems, id, 1)
    /\ UNCHANGED <<calls, createdFor, transcripts, summaries, RepoRest>>

\* delete_call: the related records go only when a Call record went
RepoDeleteCall(id) ==
    LET kept == RejectId(calls, id)
    IN /\ calls' = kept
       /\ createdFor' = SubSeq(createdFor, 1, Len(kept))
       /\ IF Len(kept) < Len(calls)
          THEN /\ transcripts' = DeleteTranscriptsForCall(transcripts, id)
               /\ summaries' = DeleteSummaryForCall(summaries, id)
               /\ actionItems' = DeleteActionItemsForCall(actionItems, id)
          ELSE UNCHANGED <<transcripts, summaries, actionItems>>
       /\ UNCHANGED <<RepoRest>>

\* the Session Repository on its own: calls are created, written to and purged
InitRepo == CoreIdle /\ BufferIdle /\ PipelineIdle

NextRepo ==
    \/ RepoCreateCall
    \/ \E id \in RepoIds : RepoAddTranscriptChunk(id)
    \/ \E id \in RepoIds : RepoCreateSummary(id)
    \/ \E id \in RepoIds : RepoCreateActionItems(id)
    \/ \E id \in RepoIds : RepoDeleteCall(id)

SpecRepo == InitRepo /\ [][NextRepo]_vars

\* ------------------------------------------------- extraction pipeline

\* a str is the sequence of its characters

\* s.find(x, from): the first position at or after from where x occurs, -1 when none
StrFind(s, x, from) ==
    LET hits == { i \in from..(Len(s) - Len(x)) : SubSeq(s, i + 1, i + Len(x)) = x }
    IN IF hits = {} THEN -1 ELSE CHOOSE i \in hits : \A j \in hits : i <= j

\* x in s
StrContains(s, x) == StrFind(s, x, 0) # -1

StartsWith(s, x) == Len(s) >= Len(x) /\ SubSeq(s, 1, Len(x)) = x

IsSpace(c) == c \in {" ", "\n", "\t"}

\* s.strip()
RECURSIVE StripLeft(_)
StripLeft(s) == IF s # <<>> /\ IsSpace(Head(s)) THEN StripLeft(Tail(s)) ELSE s

RECURSIVE StripRight(_)
StripRight(s) ==
    IF s # <<>> /\ IsSpace(s[Len(s)]) THEN StripRight(SubSeq(s, 1, Len(s) - 1)) ELSE s

Strip(s) == StripRight(StripLeft(s))

\* s.lower(), for the capitals the modelled texts use
LowerChar(c) ==
    CASE c = "I" -> "i" [] c = "F" -> "f" [] c = "T" -> "t" [] c = "S" -> "s"
      [] c = "D" -> "d" [] c = "H" -> "h" [] c = "N" -> "n" [] OTHER -> c

StrLower(s) == IF s = <<>> THEN <<>> ELSE [i \in 1..Len(s) |-> LowerChar(s[i])]

\* s.split("\n")
RECURSIVE SplitLines(_)
SplitLines(s) ==
    LET nl == StrFind(s, <<"\n">>, 0)
    IN IF nl = -1 THEN <<s>>
       ELSE <<SubSeq(s, 1, nl)>> \o SplitLines(SubSeq(s, nl + 2, Len(s)))

\* "\n".join(lines)
RECURSIVE JoinLines(_)
JoinLines(lines) ==
    IF lines = <<>> THEN <<>>
    ELSE IF Len(lines) = 1 THEN lines[1]
    ELSE lines[1] \o <<"\n">> \o JoinLines(Tail(lines))

\* dates are days counted from a Monday; a YYYY-MM-DD string names one day
\* None, and a str that is no date
NoDate == <<"None", 0>>
BadDate == <<"soon", 0>>
DateStr(d) == <<"date", d>>
IsDateStr(s) == s[1] = "date"

\* datetime.strptime(call_date, "%Y-%m-%d"), utcnow() on ValueError
BaseDate(call_date, today) == IF IsDateStr(call_date) THEN call_date[2] ELSE today

\* datetime.weekday(): Monday is 0
Weekday(d) == d % 7

\* _calculate_default_due_date
CalculateDefaultDueDate(call_date, today) == DateStr(BaseDate(call_date, today) + DefaultDueDays)

\* the grave accent, and the code fences made of it
Grave == "grave accent"
FenceJson == <<Grave, Grave, Grave, "j", "s", "o", "n">>
Fence == <<Grave, Grave, Grave>>

\* the action item indicators of the fallback extractor, in list order
Indicators ==
    <<<<"w", "i", "l", "l", " ", "s", "e", "n", "d">>,
      <<"w", "i", "l", "l", " ", "p", "r", "o", "v", "i", "d", "e">>,
      <<"f", "o", "l", "l", "o", "w", " ", "u", "p">>,
      <<"s", "c", "h", "e", "d", "u", "l", "e">>,
      <<"s", "e", "n", "d", " ", "y", "o", "u">>,
      <<"g", "e", "t", " ", "b", "a", "c", "k", " ", "t", "o">>,
      <<"p", "r", "e", "p", "a", "r", "e">>,
      <<"c", "r", "e", "a", "t", "e">>,
      <<"d", "r", "a", "f", "t">>,
      <<"r", "e", "v", "i", "e", "w">>,
      <<"a", "c", "t", "i", "o", "n", " ", "i", "t", "e", "m">>,
      <<"n", "e", "x", "t", " ", "s", "t", "e", "p">>,
      <<"t", "o", " ", "d", "o">>,
      <<"n", "e", "e", "d", " ", "t", "o">>>>

ProposalLine ==
    <<"I", " ", "w", "i", "l", "l", " ", "s", "e", "n", "d", " ", "t", "h", "e", " ", "p",
      "r", "o", "p", "o", "s", "a", "l", " ", "b", "y", " ", "F", "r", "i", "d", "a", "y">>
BulletProposalLine ==
    <<"-", " ", "I", " ", "w", "i", "l", "l", " ", "s", "e", "n", "d", " ", "t", "h", "e",
      " ", "p", "r", "o", "p", "o", "s", "a", "l", " ", "b", "y", " ", "F", "r", "i", "d",
      "a", "y">>
ThanksLine ==
    <<"T", "h", "a", "n", "k", "s", " ", "f", "o", "r", " ", "t", "h", "e", " ", "t", "i",
      "m", "e">>
ShortLine ==
    <<"*", " ", "t", "o", " ", "d", "o">>
BraceLine ==
    <<"S", "u", "m", "m", "a", "r", "y", " ", "{", "s", "e", "e", " ", "n", "o", "t", "e",
      "s", "}">>
SendTheProposal ==
    <<"s", "e", "n", "d", " ", "t", "h", "e", " ", "p", "r", "o", "p", "o", "s", "a", "l">>

\* ---- _parse_action_items_response

\* the index just past the brace that closes the one at start, start when none does
RECURSIVE BraceEnd(_, _, _, _)
BraceEnd(s, start, i, depth) ==
    IF i >= Len(s) THEN start
    ELSE IF s[i + 1] = "{" THEN BraceEnd(s, start, i + 1, depth + 1)
    ELSE IF s[i + 1] = "}"
         THEN IF depth = 1 THEN i + 1 ELSE BraceEnd(s, start, i + 1, depth - 1)
    ELSE BraceEnd(s, start, i + 1, depth)

\* the text between a pair of code fences, stripped; str.index raises when the pair is open
Unfence(s, fence) ==
    LET json_start == StrFind(s, fence, 0) + Len(fence)
        json_end == StrFind(s, Fence, json_start)
    IN IF json_end = -1 THEN Raised("ValueError")
       ELSE Ok(Strip(SubSeq(s, json_start + 1, json_end)))

\* the text handed to json.loads
JsonText(response_text) ==
    LET unfenced == IF StrContains(response_text, FenceJson)
                       THEN Unfence(response_text, FenceJson)
                    ELSE IF StrContains(response_text, Fence)
                       THEN Unfence(response_text, Fence)
                    ELSE Ok(response_text)
        s == unfenced.value
        start == StrFind(s, <<"{">>, 0)
    IN IF unfenced.kind = "raise" THEN unfenced
       ELSE IF start = -1 THEN unfenced
       ELSE Ok(SubSeq(s, start + 1, BraceEnd(s, start, start, 0)))

\* the cleaned line of the fallback extractor
CleanTask(line) ==
    LET task == Strip(line)
        t1 == IF StartsWith(task, <<"-">>) THEN Strip(Tail(task)) ELSE task
    IN IF StartsWith(t1, <<"*">>) THEN Strip(Tail(t1)) ELSE t1

HasIndicator(line) ==
    \E i \in 1..Len(Indicators) : StrContains(StrLower(line), Indicators[i])

ActionItem(task, owner, due_date, priority) ==
    [task |-> task, owner |-> owner, due_date |-> due_date, priority |-> priority]

RECURSIVE IndicatedItems(_, _, _)
IndicatedItems(lines, call_date, today) ==
    IF lines = <<>> THEN <<>>
    ELSE LET task == CleanTask(Head(lines))
             rest == IndicatedItems(Tail(lines), call_date, today)
         IN IF HasIndicator(Head(lines)) /\ Len(task) > MinTaskChars
               THEN <<ActionItem(PySlice(task, 0, 200), "Seller",
                                 CalculateDefaultDueDate(call_date, today), "medium")>> \o rest
               ELSE rest

TaskKey(item) == PySlice(StrLower(item.task), 0, 50)

RECURSIVE Deduplicate(_, _)
Deduplicate(items, seen) ==
    IF items = <<>> THEN <<>>
    ELSE IF TaskKey(Head(items)) \in seen THEN Deduplicate(Tail(items), seen)
    ELSE <<Head(items)>> \o Deduplicate(Tail(items), seen \cup {TaskKey(Head(items))})

\* _extract_action_items_from_text
ExtractActionItemsFromText(text, call_date, today) ==
    PySlice(Deduplicate(IndicatedItems(SplitLines(text), call_date, today), {}), 0, MaxItems)

\* the words _parse_due_date looks for
WordDay == <<"d", "a", "y">>
WordToday == <<"t", "o", "d", "a", "y">>
WordTomorrow == <<"t", "o", "m", "o", "r", "r", "o", "w">>
WordNextWeek == <<"n", "e", "x", "t", " ", "w", "e", "e", "k">>
WordNextMonth == <<"n", "e", "x", "t", " ", "m", "o", "n", "t", "h">>
NullWords == {<<"n", "u", "l", "l">>, <<"n", "o", "n", "e">>, <<"n", "/", "a">>, <<>>}

\* the names of the days of the week, the one of weekday() = n at n + 1
WeekdayNames ==
    <<<<"m", "o", "n", "d", "a", "y">>,
      <<"t", "u", "e", "s", "d", "a", "y">>,
      <<"w", "e", "d", "n", "e", "s", "d", "a", "y">>,
      <<"t", "h", "u", "r", "s", "d", "a", "y">>,
      <<"f", "r", "i", "d", "a", "y">>,
      <<"s", "a", "t", "u", "r", "d", "a", "y">>,
      <<"s", "u", "n", "d", "a", "y">>>>

\* ---- _parse_due_date

Digits == <<"0", "1", "2", "3", "4", "5", "6", "7", "8", "9">>
IsDigit(c) == \E n \in 1..Len(Digits) : Digits[n] = c
DigitVal(c) == (CHOOSE n \in 1..Len(Digits) : Digits[n] = c) - 1

\* int() of a run of digits
RECURSIVE StrToInt(_)
StrToInt(s) ==
    IF s = <<>> THEN 0 ELSE 10 * StrToInt(SubSeq(s, 1, Len(s) - 1)) + DigitVal(s[Len(s)])

\* the positions where a run of digits starts, and the position just past the run
RunStarts(s) == { i \in 1..Len(s) : IsDigit(s[i]) /\ (i = 1 \/ ~IsDigit(s[i - 1])) }

RECURSIVE RunEnd(_, _)
RunEnd(s, i) == IF i <= Len(s) /\ IsDigit(s[i]) THEN RunEnd(s, i + 1) ELSE i

RECURSIVE SkipSpace(_, _)
SkipSpace(s, i) == IF i <= Len(s) /\ IsSpace(s[i]) THEN SkipSpace(s, i + 1) ELSE i

\* re.findall(r'\d+', s): the runs of digits, in order
RECURSIVE FindNumbers(_, _)
FindNumbers(s, from) ==
    LET starts == { i \in RunStarts(s) : i >= from }
        i == CHOOSE k \in starts : \A j \in starts : k <= j
    IN IF starts = {} THEN <<>>
       ELSE <<SubSeq(s, i, RunEnd(s, i) - 1)>> \o FindNumbers(s, RunEnd(s, i))

\* re.search(r'(\d+)\s*day', s): the digits of the leftmost match, <<>> when none
DaysMatch(s) ==
    LET hits == { i \in RunStarts(s) :
                    StartsWith(SubSeq(s, SkipSpace(s, RunEnd(s, i)), Len(s)), WordDay) }
        i == CHOOSE k \in hits : \A j \in hits : k <= j
    IN IF hits = {} THEN <<>> ELSE SubSeq(s, i, RunEnd(s, i) - 1)

\* a value that is None or the empty str
Falsy(v) == v = <<>> \/ v[1] = "None"

\* _parse_due_date; a due_date that is a YYYY-MM-DD string is a DateStr
ParseDueDate(due_date, call_date, today) ==
    IF due_date # <<>> /\ due_date[1] = "None" THEN NoDate
    ELSE IF due_date # <<>> /\ IsDateStr(due_date) THEN due_date
    ELSE LET s == Strip(StrLower(due_date))
             base_date == BaseDate(call_date, today)
             until(wd) == IF (wd - Weekday(base_date)) % 7 = 0 THEN 7
                          ELSE (wd - Weekday(base_date)) % 7
         IN IF s \in NullWords THEN NoDate
            ELSE IF StrContains(s, WordToday) THEN DateStr(base_date)
            ELSE IF StrContains(s, WordTomorrow) THEN DateStr(base_date + 1)
            ELSE IF StrContains(s, WordNextWeek) THEN DateStr(base_date + 7)
            ELSE IF StrContains(s, WordNextMonth) THEN DateStr(base_date + 30)
            ELSE IF StrContains(s, WeekdayNames[Friday + 1])
                    THEN DateStr(base_date + until(Friday))
            ELSE IF StrContains(s, WeekdayNames[Monday + 1])
                    THEN DateStr(base_date + until(Monday))
            ELSE IF DaysMatch(s) # <<>> THEN DateStr(base_date + StrToInt(DaysMatch(s)))
            ELSE NoDate

NormalizeOwner(owner) == IF owner \in {"me", "i", "we", "us", "our team"} THEN "Seller" ELSE owner

\* _normalize_action_item of each raw item, the rejected ones left out
RECURSIVE NormalizeAll(_, _, _)
NormalizeAll(raw_items, call_date, today) ==
    IF raw_items = <<>> THEN <<>>
    ELSE LET item == Head(raw_items)
             rest == NormalizeAll(Tail(raw_items), call_date, today)
         IN CASE item.type = "str" ->
                   <<ActionItem(item.task, "Seller",
                                CalculateDefaultDueDate(call_date, today), "medium")>> \o rest
              [] item.type = "dict" /\ Strip(item.task) # <<>> ->
                   <<ActionItem(Strip(item.task), NormalizeOwner(item.owner),
                                IF Falsy(item.due_date) THEN NoDate
                                ELSE ParseDueDate(item.due_date, call_date, today),
                                "medium")>> \o rest
              [] OTHER -> rest

\* a model reply: its stripped text and what json.loads makes of the JSON text in it
NoJson == [kind |-> "no json", action_items |-> <<>>]
JsonArray == [kind |-> "array", action_items |-> <<>>]
JsonObject(raw_items) == [kind |-> "object", action_items |-> raw_items]

ParseActionItemsResponse(response, call_date, today) ==
    LET text == JsonText(response.text)
    IN IF text.kind = "raise" THEN text
       ELSE IF response.json.kind = "no json"
               THEN Ok(ExtractActionItemsFromText(text.value, call_date, today))
       ELSE IF response.json.kind = "array" THEN Raised("AttributeError")
       ELSE Ok(NormalizeAll(response.json.action_items, call_date, today))

\* _generate_default_action_item
GenerateDefaultActionItem(account_name, today) ==
    <<ActionItem(<<"Follow up with ", account_name, " regarding next steps">>, "Seller",
                 DateStr(today + DefaultDueDays), "medium")>>

TooShort(transcript) == transcript < MinTranscriptChars

\* extract_action_items; today is the date utcnow() gives on entry, later the one it
\* gives afterwards
ExtractActionItems(transcript, account_name, call_date, response, today, later) ==
    LET date == IF call_date = NoDate THEN DateStr(today) ELSE call_date
        parsed == ParseActionItemsResponse(response, date, later)
    IN IF TooShort(transcript) THEN GenerateDefaultActionItem(account_name, today)
       ELSE IF response.kind = "raise" \/ parsed.kind = "raise"
               THEN GenerateDefaultActionItem(account_name, later)
       ELSE IF parsed.value = <<>> THEN GenerateDefaultActionItem(account_name, later)
       ELSE PySlice(parsed.value, 0, MaxItems)

\* ---- generate_call_summary

\* the words _parse_text_summary looks for
WordExecutiveSummary == <<"e", "x", "e", "c", "u", "t", "i", "v", "e", " ", "s", "u", "m", "m", "a", "r", "y">>
WordSummaryColon == <<"s", "u", "m", "m", "a", "r", "y", ":">>
WordKeyPoint == <<"k", "e", "y", " ", "p", "o", "i", "n", "t">>
WordDiscussionPoint == <<"d", "i", "s", "c", "u", "s", "s", "i", "o", "n", " ", "p", "o", "i", "n", "t">>
WordPainPoint == <<"p", "a", "i", "n", " ", "p", "o", "i", "n", "t">>
WordObjection == <<"o", "b", "j", "e", "c", "t", "i", "o", "n">>
WordNextStep == <<"n", "e", "x", "t", " ", "s", "t", "e", "p">>
WordHealth == <<"h", "e", "a", "l", "t", "h">>
WordScore == <<"s", "c", "o", "r", "e">>

Summary(kind, score, action_items, llm_calls) ==
    [kind |-> kind, deal_health_score |-> score, action_items |-> action_items,
     llm_calls |-> llm_calls]

\* _generate_empty_summary
GenerateEmptySummary == Summary("insufficient data", DefaultScore, <<>>, 0)

\* _generate_fallback_summary
GenerateFallbackSummary(account_name) ==
    Summary("fallback", DefaultScore,
            <<ActionItem(<<"Review call transcript with ", account_name>>, "Seller", NoDate,
                         "medium")>>, 1)

\* min(10, max(1, score))
Clamp(score) == Min(MaxScoreKept, Max(MinScoreKept, score))

\* the section a line of a text summary opens, "" when it opens none
SectionOf(lower_line) ==
    IF StrContains(lower_line, WordExecutiveSummary) \/ StrContains(lower_line, WordSummaryColon)
       THEN "executive_summary"
    ELSE IF StrContains(lower_line, WordKeyPoint) \/ StrContains(lower_line, WordDiscussionPoint)
       THEN "key_points"
    ELSE IF StrContains(lower_line, WordPainPoint) THEN "pain_points"
    ELSE IF StrContains(lower_line, WordObjection) THEN "objections"
    ELSE IF StrContains(lower_line, WordNextStep) THEN "next_steps"
    ELSE IF StrContains(lower_line, WordHealth) /\ StrContains(lower_line, WordScore)
       THEN "deal_health"
    ELSE ""

\* the line without its bullet
Unbullet(line) ==
    IF StartsWith(line, <<"-">>) \/ StartsWith(line, <<"*">>) THEN Strip(Tail(line)) ELSE line

\* the loop of _parse_text_summary over the lines, for deal_health_score
RECURSIVE TextScore(_, _, _)
TextScore(lines, current_section, score) ==
    IF lines = <<>> THEN score
    ELSE LET line == Strip(Head(lines))
             numbers == FindNumbers(Unbullet(line), 1)
         IN IF line = <<>> THEN TextScore(Tail(lines), current_section, score)
            ELSE IF SectionOf(StrLower(line)) # ""
               THEN TextScore(Tail(lines), SectionOf(StrLower(line)), score)
            ELSE IF current_section = "deal_health" /\ numbers # <<>>
               THEN TextScore(Tail(lines), current_section, Clamp(StrToInt(numbers[1])))
            ELSE TextScore(Tail(lines), current_section, score)

\* _parse_text_summary
ParseTextSummary(text) == TextScore(SplitLines(Strip(text)), "", DefaultScore)

\* _parse_summary_response: the deal_health_score of the summary, or what is raised
ParseSummaryResponse(reply) ==
    LET text == JsonText(reply.text)
    IN IF text.kind = "raise" THEN text
       ELSE IF reply.json.kind = "no json" THEN Ok([kind |-> "text",
                                                    score |-> ParseTextSummary(text.value)])
       ELSE IF reply.json.kind = "array" THEN Raised("AttributeError")
       ELSE IF reply.json.score.type = "missing"
               THEN Ok([kind |-> "parsed", score |-> Clamp(DefaultScore)])
       ELSE IF reply.json.score.type = "str" THEN Raised("ValueError")
       ELSE Ok([kind |-> "parsed", score |-> Clamp(reply.json.score.value)])

\* generate_call_summary: summary_reply is the reply to the summary prompt, response the
\* one to the action item prompt
GenerateCallSummary(transcript, account_name, summary_reply, response, today, later) ==
    LET summary == ParseSummaryResponse(summary_reply)
    IN IF TooShort(transcript) THEN GenerateEmptySummary
       ELSE IF summary_reply.kind = "raise" \/ summary.kind = "raise"
               THEN GenerateFallbackSummary(account_name)
       ELSE Summary(summary.value.kind, summary.value.score,
                    ExtractActionItems(transcript, account_name, NoDate, response, today,
                                       later),
                    2)

\* ---- inputs

Days == 0..MaxDay
CallDates == {NoDate, BadDate} \cup { DateStr(d) : d \in Days }
\* utcnow() on entry, and later: the same day or the next
Todays == Days
Laters(today) == {today, today + 1}
TranscriptLens == {0, MinTranscriptChars - 1, MinTranscriptChars}
AccountNames == {"Acme"}

Letters == <<"a", "b", "c", "d", "e", "f", "g", "h", "i", "j", "k", "l", "m", "n">>
TaskName(i) == <<"d", "o", " ", Letters[i]>>
RawDict(i) ==
    [type |-> "dict", task |-> TaskName(i), owner |-> IF i % 2 = 0 THEN "we" ELSE "Buyer",
     due_date |-> IF i % 3 = 0 THEN WeekdayNames[Friday + 1] ELSE NoDate]
RawString == [type |-> "str", task |-> <<"c", "a", "l", "l">>, owner |-> "", due_date |-> NoDate]
RawBlank == [type |-> "dict", task |-> <<" ">>, owner |-> "Seller", due_date |-> NoDate]
RawNumber == [type |-> "other", task |-> <<>>, owner |-> "", due_date |-> NoDate]

\* the JSON replies: n well-formed items, then possibly one of another sort
RawLists ==
    { [i \in 1..n |-> RawDict(i)] \o tail :
        n \in 0..MaxExtracted, tail \in {<<>>, <<RawString>>, <<RawBlank>>, <<RawNumber>>} }

\* due_date values of a raw item
DuePhrases ==
    {<<"t", "o", "d", "a", "y">>,
     <<"T", "o", "m", "o", "r", "r", "o", "w">>,
     <<"n", "e", "x", "t", " ", "w", "e", "e", "k">>,
     <<"n", "e", "x", "t", " ", "m", "o", "n", "t", "h">>,
     <<" ", "F", "r", "i", "d", "a", "y", " ">>,
     <<"i", "n", " ", "3", " ", "d", "a", "y", "s">>,
     <<"1", " ", "d", "a", "y">>,
     <<"1", "2", "d", "a", "y", "s">>,
     <<"s", "o", "o", "n">>,
     <<"n", "u", "l", "l">>,
     <<"S", "u", "n", "d", "a", "y", " ", "5", "p", "m">>,
     <<>>, NoDate}
      \cup { WeekdayNames[n] : n \in 1..7 }
      \cup { DateStr(d) : d \in Days }

TextLines == {ProposalLine, BulletProposalLine, ThanksLine, ShortLine, BraceLine}
ReplyTexts == UNION { [1..n -> TextLines] : n \in 0..MaxLines }

Content(text, json) == [kind |-> "content", text |-> Strip(text), json |-> json]
LlmRaises == [kind |-> "raise", text |-> <<>>, json |-> NoJson]

Responses ==
    {LlmRaises, Content(<<"[", "]">>, JsonArray)}
      \cup { Content(<<"{", "}">>, JsonObject(raw)) : raw \in RawLists }
      \cup { Content(JoinLines(ls), NoJson) : ls \in ReplyTexts }

\* str(n)
RECURSIVE NatStr(_)
NatStr(n) == IF n < 10 THEN <<Digits[n + 1]>> ELSE NatStr(n \div 10) \o <<Digits[(n % 10) + 1]>>
NumStr(n) == IF n < 0 THEN <<"-">> \o NatStr(0 - n) ELSE NatStr(n)

\* the deal-health scores a model reports
Scores == (0 - MaxBelow)..MaxScore
NoScore == [type |-> "missing", value |-> 0]
IntScore(n) == [type |-> "int", value |-> n]
WordScoreValue == [type |-> "str", value |-> 0]

HealthHeader == <<"D", "e", "a", "l", " ", "H", "e", "a", "l", "t", "h", " ", "S", "c", "o", "r", "e">>
HealthPrefix == <<"D", "e", "a", "l", " ", "h", "e", "a", "l", "t", "h", " ", "s", "c", "o", "r", "e", ":", " ">>
OutOfTen == <<" ", "o", "u", "t", " ", "o", "f", " ", "1", "0">>
NextStepsHeader == <<"N", "e", "x", "t", " ", "s", "t", "e", "p", "s">>

\* the layouts of a text summary that reports the score n
ScoreLayouts(n) ==
    {<<HealthHeader, NumStr(n)>>,
     <<HealthPrefix \o NumStr(n)>>,
     <<HealthHeader, <<"*", " ">> \o NumStr(n) \o OutOfTen>>}

\* the replies to the summary prompt; reported is the score the reply states
SummaryReply(text, json, reported) ==
    [kind |-> "content", text |-> Strip(text), json |-> json, reported |-> reported]
SummaryRaises == [kind |-> "raise", text |-> <<>>, json |-> NoJson, reported |-> NoScore]
JsonSummary(score) == [kind |-> "object", score |-> score]

SummaryReplies ==
    {SummaryRaises, SummaryReply(<<"[", "]">>, JsonArray, NoScore),
     SummaryReply(<<"{", "}">>, JsonSummary(NoScore), NoScore),
     SummaryReply(<<"{", "}">>, JsonSummary(WordScoreValue), NoScore)}
      \cup { SummaryReply(<<"{", "}">>, JsonSummary(IntScore(n)), IntScore(n)) : n \in Scores }
      \cup UNION { { SummaryReply(JoinLines(ls), NoJson, IntScore(n)) : ls \in ScoreLayouts(n) } :
                   n \in Scores }
      \cup { SummaryReply(JoinLines(<<NextStepsHeader, NumStr(n)>>), NoJson, NoScore) :
               n \in Scores }

\* the replies to the action item prompt that follow a summary reply
ItemReplies ==
    {LlmRaises, Content(<<"{", "}">>, JsonObject(<<>>)),
     Content(<<"{", "}">>, JsonObject(<<RawDict(1), RawDict(2)>>))}


\* ---- actions: a run is one invocation of an entry point of the pipeline

ExtractCall ==
    /\ invoked = NoInvocation
    /\ \E transcript \in TranscriptLens, account_name \in AccountNames,
          call_date \in CallDates, response \in Responses, today \in Todays :
          \E later \in Laters(today) :
             /\ invoked' = [op |-> "extract_action_items", transcript |-> transcript,
                            account_name |-> account_name, call_date |-> call_date,
                            response |-> response, today |-> today, later |-> later]
             /\ returned' = Ok(ExtractActionItems(transcript, account_name, call_date,
                                                  response, today, later))
    /\ UNCHANGED <<coreVars, bufVars>>

ParseCall ==
    /\ invoked = NoInvocation
    /\ \E response \in Responses, call_date \in CallDates \ {NoDate}, today \in Todays :
          /\ response.kind = "content"
          /\ invoked' = [op |-> "_parse_action_items_response", response |-> response,
                         call_date |-> call_date, today |-> today]
          /\ returned' = ParseActionItemsResponse(response, call_date, today)
    /\ UNCHANGED <<coreVars, bufVars>>

DueDateCall ==
    /\ invoked = NoInvocation
    /\ \E due_date \in DuePhrases, call_date \in CallDates \ {NoDate}, today \in Todays :
          /\ invoked' = [op |-> "_parse_due_date", due_date |-> due_date,
                         call_date |-> call_date, today |-> today]
          /\ returned' = Ok(ParseDueDate(due_date, call_date, today))
    /\ UNCHANGED <<coreVars, bufVars>>

SummaryCall ==
    /\ invoked = NoInvocation
    /\ \E transcript \in TranscriptLens, account_name \in AccountNames,
          summary_reply \in SummaryReplies, response \in ItemReplies, today \in Todays :
          \E later \in Laters(today) :
             /\ invoked' = [op |-> "generate_call_summary", transcript |-> transcript,
                            account_name |-> account_name,
                            summary_reply |-> summary_reply, response |-> response,
                            today |-> today, later |-> later, stored |-> FALSE]
             /\ returned' = Ok(GenerateCallSummary(transcript, account_name, summary_reply,
                                                   response, today, later))
    /\ UNCHANGED <<coreVars, bufVars>>

\* the call whose summary the handler stores
SummarizedCall == CHOOSE id \in IssuedIds : \A other \in IssuedIds : id <= other

\* _generate_summary once generate_call_summary has returned: CallSummaryCreate validates
\* the score, then the summary and the action items are stored and the call is marked
StoreSummary ==
    /\ invoked.op = "generate_call_summary"
    /\ ~invoked.stored
    /\ invoked' = [invoked EXCEPT !.stored = TRUE]
    /\ LET summary_data == returned.value
       IN IF summary_data.deal_health_score \in MinScoreKept..MaxScoreKept
          THEN /\ summaries' = CreateSummary(summaries, SummarizedCall,
                                             summary_data.deal_health_score)
               /\ actionItems' = IF summary_data.action_items # <<>>
                                 THEN CreateActionItemsBatch(actionItems, SummarizedCall,
                                                             Len(summary_data.action_items))
                                 ELSE actionItems
               /\ calls' = RepoSetSummarized(calls, SummarizedCall)
          ELSE UNCHANGED <<summaries, actionItems, calls>>
    /\ UNCHANGED <<now, createdFor, transcripts, redisVars, trackers, loopVars, muxVars,
                   bgTasks, restEnds, limits, logged, bufVars, returned>>

InitExtract == CoreIdle /\ BufferIdle /\ PipelineIdle

NextExtract == ExtractCall \/ ParseCall \/ DueDateCall \/ SummaryCall \/ StoreSummary

SpecExtract == InitExtract /\ [][NextExtract]_vars

\* ================================================================ claims

\* the step in which connection c's read loop hands an event of this type to the handler
Dispatch(c, type) == received'[c] = received[c] + 1 /\ cur'[c] = type

\* the step in which _handle_end_call goes on into _generate_summary
GenStep(c) == pc[c] = "end_bc" /\ pc'[c] # "end_bc"

\* connection c is inside handle_message
Handling(c) == pc[c] \in {"transcribing", "end_bc", "ret"}

WholeSeconds(r) ==
    /\ r.duration_seconds >= 0
    /\ r.duration_seconds * TicksPerSecond <= r.ended_at - r.started_at
    /\ r.ended_at - r.started_at < (r.duration_seconds + 1) * TicksPerSecond

\* C1: a start_call handled for an identifier without a Call record leaves a
\* Call record with that identifier, in status in_progress
C1_StartCreatesCallWithId ==
    [][\A c \in Conns :
          (Dispatch(c, "start_call") /\ ~HasCall(calls, connCall[c]))
          => /\ HasCall(calls', connCall[c])
             /\ GetCall(calls', connCall[c]).status = "in_progress"]_vars

StartsHandled(id) ==
    {k \in 1..Len(bcastLog) :
        /\ bcastLog[k].type = "status_update"
        /\ bcastLog[k].status = "connected"
        /\ bcastLog[k].call = id}

RecordsFor(id) == {i \in 1..Len(calls) : calls[i].id = id \/ createdFor[i] = id}

\* C2: once start_call was handled twice for an identifier, exactly one Call
\* record belongs to that identifier
C2_StartTwiceOneRecord ==
    \A id \in CallIds :
        Cardinality(StartsHandled(id)) >= 2 => Cardinality(RecordsFor(id)) = 1

\* C3: a start_call for a Call that exists in status in_progress changes nothing
\* in the repository and the side store; it invokes exactly one broadcast, the
\* status_update "connected" of that call
C3_ReconnectIsNoOp ==
    [][\A c \in Conns :
          (/\ Dispatch(c, "start_call")
           /\ HasCall(calls, connCall[c])
           /\ GetCall(calls, connCall[c]).status = "in_progress")
          => /\ UNCHANGED <<calls, createdFor, transcripts, summaries, actionItems>>
             /\ UNCHANGED <<rmeta, rstatus, rbuffer, active>>
             /\ bcastLog' = Append(bcastLog,
                                Event("status_update", connCall[c], "connected", c))]_vars

C3_Witness ==
    \E c \in Conns :
        /\ cur[c] = "start_call"
        /\ HasCall(calls, connCall[c])
        /\ GetCall(calls, connCall[c]).status = "in_progress"
        /\ rmeta[connCall[c]] = None
        /\ Len(inbox[c]) = 1

\* C4: the end transition of a Call in status in_progress, by an end_call event
\* or by the REST end-call, sets status ended and ended_at, and stores as
\* duration_seconds the whole seconds from started_at to ended_at, which is >= 0
C4_EndTransition ==
    [][/\ \A c \in Conns :
             (/\ Dispatch(c, "end_call")
              /\ HasCall(calls, connCall[c])
              /\ GetCall(calls, connCall[c]).status = "in_progress")
             => LET r == GetCall(calls', connCall[c])
                IN /\ r.status = "ended"
                   /\ r.ended_at # None
                   /\ r.started_at = GetCall(calls, connCall[c]).started_at
                   /\ WholeSeconds(r)
       /\ restEnds' # restEnds
          => /\ Len(calls') = Len(calls)
             /\ \E i \in 1..Len(calls) : calls'[i].status = "ended"
             /\ \A i \in 1..Len(calls) :
                   (calls[i].status = "in_progress" /\ calls'[i] # calls[i])
                   => /\ calls'[i].status = "ended"
                      /\ calls'[i].ended_at # None
                      /\ calls'[i].started_at = calls[i].started_at
                      /\ WholeSeconds(calls'[i])]_vars

C4_Witness ==
    \E c \in Conns, i \in 1..Len(calls) :
        /\ cur[c] = "end_call"
        /\ calls[i].id = connCall[c]
        /\ calls[i].status = "ended"
        /\ calls[i].ended_at > calls[i].started_at
        /\ calls[i].duration_seconds * TicksPerSecond < calls[i].ended_at - calls[i].started_at

\* C5: a Call becomes summarized only by a step from status ended, never from
\* in_progress or from absent, and summary generation for a call starts only
\* (_generate_summary goes past its empty-transcript check) after the end
\* transition of that call was executed
C5_SummarizedOnlyAfterEnd ==
    [][/\ Len(calls') >= Len(calls)
       /\ \A i \in 1..Len(calls') :
             calls'[i].status = "summarized"
             => i <= Len(calls) /\ calls[i].status \in {"ended", "summarized"}
       /\ \A c \in Conns :
             (GenStep(c) /\ HasTranscript(transcripts, connCall[c]))
             => /\ HasCall(calls, connCall[c])
                /\ GetCall(calls, connCall[c]).status \in {"ended", "summarized"}]_vars

\* C6: an end_call for a Call that is already summarized changes neither the
\* Call record nor its summary nor its action items
C6_EndOnSummarizedIsNoOp ==
    [][\A c \in Conns :
          (/\ Dispatch(c, "end_call")
           /\ HasCall(calls, connCall[c])
           /\ GetCall(calls, connCall[c]).status = "summarized")
          => /\ GetCall(calls', connCall[c]) = GetCall(calls, connCall[c])
             /\ UNCHANGED <<summaries, actionItems>>]_vars

\* C7: an end_call for an identifier without a Call record changes neither the
\* repository nor the side store, does not announce the call as ended and does
\* not go on to summary generation
C7_EndUnknownIsNoOp ==
    [][\A c \in Conns :
          (Dispatch(c, "end_call") /\ ~HasCall(calls, connCall[c]))
          => /\ UNCHANGED <<calls, transcripts, summaries, actionItems>>
             /\ UNCHANGED <<rmeta, rstatus, rbuffer>>
             /\ \A k \in (Len(bcastLog) + 1)..Len(bcastLog') :
                   bcastLog'[k].status # "ended"
             /\ pc'[c] # "end_bc"]_vars

\* C8: in every repository state, for every Call record, ended_at is set exactly
\* when status is ended, summarized or error, and a set duration_seconds is the
\* whole seconds from started_at to ended_at, which is >= 0
C8_EndedAtIffEnded ==
    \A i \in 1..Len(calls) :
        /\ calls[i].ended_at # None <=> calls[i].status \in {"ended", "summarized", "error"}
        /\ calls[i].duration_seconds # None
           => calls[i].ended_at # None /\ WholeSeconds(calls[i])

C8_Witness ==
    \E i \in 1..Len(calls) :
        /\ calls[i].status = "summarized"
        /\ calls[i].ended_at > calls[i].started_at
        /\ calls[i].duration_seconds > 0

\* C9: no two connections of one call are inside handle_message at
\* the same time
C9_OneHandlerPerCall ==
    \A c1, c2 \in Conns :
        (c1 # c2 /\ connCall[c1] # NoCall /\ connCall[c1] = connCall[c2])
        => ~(Handling(c1) /\ Handling(c2))

\* what the read loop does guarantee (C9 restricted to one connection): the
\* events of one connection are handled one after the other: an event is taken
\* from a connection only when no handler of that connection is in progress and
\* no broadcast of it is in flight
C9_OneHandlerPerConnection ==
    [][\A c \in Conns :
          received'[c] # received[c]
          => pc[c] = "recv" /\ cur[c] = "none" /\ bcasts[c].k = 0]_vars

C9_Witness ==
    \E c \in Conns : received[c] >= 2 /\ Handling(c) /\ bcasts[c].k # 0

\* C10: every connection is sent the events in the order in which
\* broadcast was invoked
C10_InboxInBroadcastOrder ==
    \A c \in Conns :
        \A i, j \in 1..Len(inbox[c]) : i < j => inbox[c][i] < inbox[c][j]

\* what broadcast_to_call does guarantee (C10 restricted to the broadcasts of
\* one connection's handlers): every connection is sent the events that the
\* handlers of one connection broadcast in the order in which broadcast was
\* invoked for them
C10_InboxInBroadcastOrderPerOwner ==
    \A c \in Conns :
        \A i, j \in 1..Len(inbox[c]) :
            (i < j /\ bcastLog[inbox[c][i]].owner = bcastLog[inbox[c][j]].owner)
            => inbox[c][i] < inbox[c][j]

C10_Witness ==
    \E c \in Conns :
        \E i, j \in 1..Len(inbox[c]) :
            /\ i < j
            /\ bcastLog[inbox[c][i]].owner = bcastLog[inbox[c][j]].owner
            /\ bcastLog[inbox[c][i]].owner # c

\* the step in which the broadcast of connection o's handler returns
Completing(o) == bcasts[o].k # 0 /\ bcasts'[o].k = 0

\* the step in which the broadcast of connection o's handler calls send_json
Sending(o) ==
    /\ bcasts'[o].k # 0
    /\ bcasts[o].k = 0 \/ bcasts'[o].idx # bcasts[o].idx

\* the connections whose send failed in the broadcast of connection o's handler
FailedSends(o) ==
    IF bcasts[o].ok THEN bcasts[o].disc ELSE Append(bcasts[o].disc, bcasts[o].target)

InboxHas(inb, ws, k) == \E i \in 1..Len(inb[ws]) : inb[ws][i] = k

Attached(act, ws, id) == id \in DOMAIN act /\ ws \in Elems(act[id])

\* C11: a broadcast delivers the event to every connection whose send succeeds;
\* when it returns, every connection whose send failed is removed from the
\* call's connection set, no other connection is removed and nothing was
\* raised; every connection that was attached when the broadcast was invoked
\* and still is when it returns either has the event or is evicted by it
C11_BroadcastDeliversAndEvicts ==
    [][\A o \in Conns :
          /\ Sending(o)
             => (bcasts'[o].ok <=> InboxHas(inbox', bcasts'[o].target, bcasts'[o].k))
          /\ Completing(o)
             => LET b == bcasts[o]
                    id == bcasts[o].call
                IN /\ \A ws \in Elems(FailedSends(o)) : ~Attached(active', ws, id)
                   /\ \A ws \in Conns :
                         (Attached(active, ws, id) /\ ws \notin Elems(FailedSends(o)))
                         => Attached(active', ws, id)
                   /\ pc'[o] # "raised"
                   /\ \A ws \in Elems(b.members) :
                         (~b.stale /\ Attached(active, ws, id))
                         => InboxHas(inbox, ws, b.k) \/ ws \in Elems(FailedSends(o))]_vars

\* one live and one dead connection: the live one has the event and only it is
\* still attached; the dead one was evicted by the broadcast, not by its read loop
C11_Witness ==
    \E live, dead \in Conns :
        /\ connCall[live] = connCall[dead]
        /\ alive[live] /\ ~alive[dead]
        /\ pc[dead] \notin {"init", "closed"}
        /\ connCall[live] \in DOMAIN active
        /\ active[connCall[live]] = <<live>>
        /\ \E k \in 1..Len(bcastLog) :
              InboxHas(inbox, live, k) /\ ~InboxHas(inbox, dead, k)

\* C12: whatever disconnects are interleaved at the suspension points of a
\* broadcast, including the one that empties and deletes the call's entry, no
\* broadcast and no disconnect raises
C12_BroadcastSurvivesDisconnect == \A c \in Conns : pc[c] # "raised"

\* a broadcast is suspended in a send that failed, and meanwhile the entry of its
\* call was emptied and deleted
C12_Witness ==
    \E o \in Conns :
        /\ bcasts[o].k # 0
        /\ bcasts[o].stale
        /\ FailedSends(o) # <<>>

\* the step in which a handler of connection c invokes broadcast with an event of this type
Emitted(c, type) ==
    /\ Len(bcastLog') = Len(bcastLog) + 1
    /\ bcastLog'[Len(bcastLog')].type = type
    /\ bcastLog'[Len(bcastLog')].owner = c

LastEvent == bcastLog'[Len(bcastLog')]

ExtractionErrors == {"No transcript", "Summary generation failed"}

QueryErrors == {"Empty query", "Query processing error", "Message processing error"}

\* C13: the end_call handler returns before the extraction completes: when the
\* result of the extraction (summary_ready or its error) is emitted, the
\* connection's end_call handler is no longer in progress
C13_EndCallReturnsBeforeExtraction ==
    [][\A c \in Conns :
          (\/ Emitted(c, "summary_ready")
           \/ Emitted(c, "error") /\ LastEvent.status \in ExtractionErrors)
          => pc[c] # "end_bc"]_vars

\* C14: whatever event is taken from a connection, the connection is not
\* terminated by it, and an envelope that is not a message object is answered
\* with an error event while the Call records stay as they are
C14_ThrowingEventAnsweredWithError ==
    [][\A c \in Conns :
          received'[c] # received[c]
          => /\ pc'[c] # "closed"
             /\ cur'[c] = "malformed" => Emitted(c, "error") /\ calls' = calls]_vars

\* C15: the step that broadcasts a transcript tuple as transcript_chunk has
\* appended it to the Transcript Buffer and has added it to the repository
\* transcript exactly when it is final; the repository transcript changes in no
\* other way, holds only final chunks, and holds every final chunk that was broadcast
C15_TranscriptPersistedIffFinal ==
    [][/\ \A c \in Conns :
             Emitted(c, "transcript_chunk")
             => LET e == LastEvent
                    buf == rbuffer'[e.call]
                    last == transcripts'[Len(transcripts')]
                IN /\ buf # <<>>
                   /\ buf[Len(buf)].seq = e.seq
                   /\ buf[Len(buf)].is_final = e.final
                   /\ e.final => /\ Len(transcripts') = Len(transcripts) + 1
                                 /\ SubSeq(transcripts', 1, Len(transcripts)) = transcripts
                                 /\ last.call_id = e.call /\ last.seq = e.seq
                   /\ ~e.final => transcripts' = transcripts
       /\ transcripts' # transcripts
          => \E c \in Conns : Emitted(c, "transcript_chunk") /\ LastEvent.final
       /\ \A i \in 1..Len(transcripts') : transcripts'[i].is_final
       /\ \A k \in 1..Len(bcastLog') :
             (bcastLog'[k].type = "transcript_chunk" /\ bcastLog'[k].final)
             => \E i \in 1..Len(transcripts') :
                   /\ transcripts'[i].call_id = bcastLog'[k].call
                   /\ transcripts'[i].seq = bcastLog'[k].seq]_vars

\* an interim and a final tuple of one call were broadcast and received: both
\* are in the buffer, only the final one is in the repository
C15_Witness ==
    \E c \in Conns, k1, k2 \in 1..Len(bcastLog) :
        /\ bcastLog[k1].type = "transcript_chunk" /\ ~bcastLog[k1].final
        /\ bcastLog[k2].type = "transcript_chunk" /\ bcastLog[k2].final
        /\ bcastLog[k1].call = connCall[c] /\ bcastLog[k2].call = connCall[c]
        /\ InboxHas(inbox, c, k1) /\ InboxHas(inbox, c, k2)
        /\ Len(rbuffer[connCall[c]]) = 2
        /\ Len(SelectCall(transcripts, connCall[c])) = 1

\* C16: a push_to_talk_query is answered with exactly one event, a
\* query_response or an error; when the answering collaborator raises (the
\* handler logs the exception) it is an error; the Call records, transcripts, summaries, action items and the side
\* store are unchanged, and when the broadcast returns the connection is back
\* at its read loop
C16_FailedQueryOneError ==
    [][\A c \in Conns :
          /\ Dispatch(c, "push_to_talk_query")
             => /\ Len(bcastLog') = Len(bcastLog) + 1
                /\ LastEvent.owner = c /\ LastEvent.call = connCall[c]
                /\ \/ LastEvent.type = "query_response"
                   \/ LastEvent.type = "error" /\ LastEvent.status \in QueryErrors
                /\ logged' # logged
                   => /\ LastEvent.type = "error"
                      /\ LastEvent.status \in QueryErrors \ {"Empty query"}
                /\ UNCHANGED <<calls, createdFor, transcripts, summaries, actionItems>>
                /\ UNCHANGED <<rmeta, rstatus, rbuffer>>
                /\ pc'[c] = "ret"
          /\ (cur[c] = "push_to_talk_query" /\ Completing(c))
             => pc'[c] = "recv" /\ cur'[c] = "none"]_vars

\* a query whose collaborator raised was answered with an error, and the same
\* connection had a later event handled
C16_Witness ==
    \E c \in Conns, k1, k2 \in 1..Len(bcastLog) :
        /\ k1 < k2
        /\ bcastLog[k1].type = "error" /\ bcastLog[k1].status = "Query processing error"
        /\ bcastLog[k1].owner = c /\ bcastLog[k2].owner = c
        /\ InboxHas(inbox, c, k1) /\ InboxHas(inbox, c, k2)
        /\ received[c] = 2

ExtractionFailed(c) == GenStep(c) /\ ~Emitted(c, "summary_ready")

CallKeptEnded(c) ==
    /\ calls' = calls
    /\ HasCall(calls, connCall[c])
       => GetCall(calls, connCall[c]).status \in {"ended", "summarized"}

C19_DetachedResultsPersisted ==
    [][\A c \in Conns :
          LET id == connCall[c]
              detached == id \notin DOMAIN active
              dropped == inbox' = inbox /\ bcasts'[c].k = 0 /\ pc'[c] = "recv"
          IN /\ (pc[c] \in {"transcribing", "end_bc"} /\ pc'[c] # pc[c])
                => pc'[c] \in {"recv", "ret"}
             /\ (pc[c] = "transcribing" /\ Emitted(c, "transcript_chunk"))
                => /\ LastEvent.final
                      => /\ Len(transcripts') = Len(transcripts) + 1
                         /\ transcripts'[Len(transcripts')].call_id = id
                         /\ transcripts'[Len(transcripts')].seq = LastEvent.seq
                   /\ detached => dropped
             /\ (GenStep(c) /\ Emitted(c, "summary_ready"))
                => /\ FindSummary(summaries', id) # 0
                   /\ Len(actionItems') = Len(actionItems) + 1
                   /\ actionItems'[Len(actionItems')].call_id = id
                   /\ detached => dropped]_vars

\* a final tuple and a summary were stored for a call whose connections had all
\* gone: nobody was sent the transcript_chunk or the summary_ready
C19_Witness ==
    \E k1, k2 \in 1..Len(bcastLog) :
        LET id == bcastLog[k1].call
        IN /\ bcastLog[k1].type = "transcript_chunk" /\ bcastLog[k1].final
           /\ bcastLog[k2].type = "summary_ready" /\ bcastLog[k2].call = id
           /\ \A c \in Conns : ~InboxHas(inbox, c, k1) /\ ~InboxHas(inbox, c, k2)
           /\ id \notin DOMAIN active
           /\ HasTranscript(transcripts, id)
           /\ FindSummary(summaries, id) # 0

Labels(c) ==
    [i \in 1..Len(inbox[c]) |->
        IF bcastLog[inbox[c][i]].type = "status_update" THEN bcastLog[inbox[c][i]].status
        ELSE bcastLog[inbox[c][i]].type]

ScenarioExpected ==
    <<"connected">> \o [i \in 1..ScenarioChunks |-> "transcript_chunk"]
                    \o <<"ended", "summary_ready">>

\* the scenario ran to its end: every audio chunk finalized into one stored
\* chunk, and the extraction stored a summary and an action item
ScenarioDone ==
    /\ pc[1] = "recv"
    /\ received[1] = ScenarioChunks + 2
    /\ Len(SelectCall(transcripts, connCall[1])) = ScenarioChunks
    /\ FindSummary(summaries, connCall[1]) # 0
    /\ \E i \in 1..Len(actionItems) : actionItems[i].call_id = connCall[1]

\* C20: at the end of the scenario the connection was sent exactly
\* status_update(connected), the transcript_chunk events in chunk order,
\* status_update(ended), summary_ready, in this order
C20_EndToEndOrder ==
    ScenarioDone
    => /\ Labels(1) = ScenarioExpected
       /\ \A i \in 1..ScenarioChunks : bcastLog[inbox[1][i + 1]].seq = i - 1

C20_Witness == ScenarioDone /\ Len(inbox[1]) = ScenarioChunks + 3

\* the last n elements of a sequence
LastN(s, n) == SubSeq(s, Max(0, Len(s) - n) + 1, Len(s))

OrderedByStart(chunks) ==
    \A i, j \in 1..Len(chunks) : i <= j => chunks[i].start_time <= chunks[j].start_time

IsSuffix(s, l) == Len(s) <= Len(l) /\ s = LastN(l, Len(s))

\* C21: after k appends to an entry, all() returns exactly the last
\* min(k, max_chunks) appended chunks in append order, never more than
\* max_chunks of them, and ordered by start offset when the appended offsets
\* are monotonic; on either backend
C21_BufferKeepsLastN ==
    \A id \in BufKeyIds :
        /\ MemAll(id) = LastN(appended.mem[id], MaxBufferChunks)
        /\ RedisAll(id) = LastN(appended.dur[id], MaxBufferChunks)
        /\ Len(MemAll(id)) = Min(Len(appended.mem[id]), MaxBufferChunks)
        /\ Len(RedisAll(id)) = Min(Len(appended.dur[id]), MaxBufferChunks)
        /\ OrderedByStart(appended.mem[id]) => OrderedByStart(MemAll(id))
        /\ OrderedByStart(appended.dur[id]) => OrderedByStart(RedisAll(id))

\* an entry that has been trimmed from the head on both backends
C21_Witness ==
    \E id \in BufKeyIds :
        /\ Len(appended.mem[id]) > MaxBufferChunks
        /\ Len(appended.dur[id]) > MaxBufferChunks
        /\ Len(MemAll(id)) = MaxBufferChunks
        /\ Len(RedisAll(id)) = MaxBufferChunks
        /\ Head(MemAll(id)) # Head(appended.mem[id])

\* the positions of the chunks whose start offset is at or after (largest end offset - w)
InWindow(chunks, w) ==
    { i \in 1..Len(chunks) :
        \A j \in 1..Len(chunks) : chunks[i].start_time >= chunks[j].end_time - w }

\* the elements of a sequence at a set of positions, in sequence order
Pick(chunks, S) ==
    IF S = {} THEN <<>>
    ELSE [k \in 1..Cardinality(S) |->
             chunks[CHOOSE i \in S : Cardinality({j \in S : j <= i}) = k]]

RecentIsWindow(chunks, w) ==
    LET picked == Pick(chunks, InWindow(chunks, w))
    IN /\ GetRecentTranscriptText(chunks, w) =
              (IF picked = <<>> THEN <<>>
               ELSE [k \in 1..Len(picked) |-> <<picked[k].speaker, ": ", picked[k].text>>])
       /\ chunks = <<>> => GetRecentTranscriptText(chunks, w) = <<>>
       /\ OrderedByStart(chunks) => IsSuffix(picked, chunks)

\* C22: recent(w) yields exactly the chunks of all() whose start offset is at
\* least the largest end offset minus w, in buffer order, one "speaker: text"
\* line each; it is a suffix of all() when all() is ordered by start offset,
\* and empty on an empty buffer
C22_RecentIsWindowOfAll ==
    \A id \in BufKeyIds, w \in Windows :
        RecentIsWindow(MemAll(id), w) /\ RecentIsWindow(RedisAll(id), w)

\* a window that keeps the chunk starting at the cutoff and leaves an older one out
C22_Witness ==
    \E id \in BufKeyIds, w \in Windows :
        LET all == MemAll(id)
        IN /\ Len(all) = MaxBufferChunks
           /\ InWindow(all, w) # {}
           /\ InWindow(all, w) # 1..Len(all)
           /\ \E i \in InWindow(all, w) : all[i].start_time = LatestEnd(all) - w
           /\ Len(MemRecent(id, w)) = Cardinality(InWindow(all, w))

Entered(id) == { p \in 1..BufWriters : writers[p].pc # "idle" /\ writers[p].id = id }

RECURSIVE ChunksOf(_)
ChunksOf(s) ==
    IF Len(s) = 0 THEN <<>>
    ELSE <<writers[s[1]].chunk>> \o ChunksOf([i \in 1..Len(s) - 1 |-> s[i + 1]])

\* the buffers that some of these appends leave when they run one at a time
SerialBuffers(id) ==
    LET W == Entered(id)
        orders == UNION { { s \in [1..n -> W] : \A i, j \in 1..n : s[i] = s[j] => i = j } :
                          n \in 0..Cardinality(W) }
    IN { LastN(ChunksOf(s), MaxBufferChunks) : s \in orders }

\* C24: whatever the interleaving of the push, trim and expire commands of
\* concurrent appends, a reader of the durable backend only ever sees a
\* buffer that some of these appends, run one at a time as whole operations,
\* would leave
C24_AppendsSerialized ==
    \A id \in BufKeyIds : RedisAll(id) \in SerialBuffers(id)

\* the positions of the summaries stored for a call
SummariesOf(ss, id) == { i \in 1..Len(ss) : ss[i].call_id = id }

\* C25: every call identifier has at most one stored summary, and create_summary
\* for a call that has one replaces its content with the new data and adds no
\* record, leaving the summaries of the other calls as they were
C25_SummaryUpsert ==
    [][/\ \A id \in CallIds : Cardinality(SummariesOf(summaries', id)) <= 1
       /\ \A id \in RepoIds :
             RepoCreateSummary(id) =>
                /\ Cardinality(SummariesOf(summaries', id)) = 1
                /\ \A i \in SummariesOf(summaries', id) :
                      summaries'[i].content = NextContent(summaries, id)
                /\ Len(summaries') =
                      Len(summaries) + (IF SummariesOf(summaries, id) = {} THEN 1 ELSE 0)
                /\ RejectCall(summaries', id) = RejectCall(summaries, id)]_vars

\* a summary that was generated a second time, next to the summary of another call
C25_Witness ==
    \E id, other \in RepoIds :
        /\ id # other
        /\ Len(summaries) = 2
        /\ \E i \in SummariesOf(summaries, id) : summaries[i].content = 2
        /\ \E i \in SummariesOf(summaries, other) : summaries[i].content = 1

\* C26: delete_call on an existing Call leaves no Call record, transcript chunk,
\* summary or action item with that identifier, and leaves the records of
\* every other call unchanged
C26_PurgeCascades ==
    [][\A id \in RepoIds :
          RepoDeleteCall(id) /\ HasCall(calls, id) =>
             /\ id \notin {calls'[i].id : i \in 1..Len(calls')}
             /\ id \notin {transcripts'[i].call_id : i \in 1..Len(transcripts')}
             /\ id \notin {summaries'[i].call_id : i \in 1..Len(summaries')}
             /\ id \notin {actionItems'[i].call_id : i \in 1..Len(actionItems')}
             /\ \A other \in CallIds \ {id} :
                   /\ HasCall(calls, other) =>
                         HasCall(calls', other) /\ GetCall(calls', other) = GetCall(calls, other)
                   /\ SelectCall(transcripts', other) = SelectCall(transcripts, other)
                   /\ SelectCall(summaries', other) = SelectCall(summaries, other)
                   /\ SelectCall(actionItems', other) = SelectCall(actionItems, other)]_vars

\* the first call purged, the second call left with its chunk, summary and item
C26_Witness ==
    /\ Len(calls) = 1
    /\ calls[1].id = 2
    /\ 1 \notin IdsInUse
    /\ SelectCall(transcripts, 2) # <<>>
    /\ SelectCall(summaries, 2) # <<>>
    /\ SelectCall(actionItems, 2) # <<>>

\* C27: an extraction that succeeds (its action items are stored) leaves the
\* Call in status summarized, whether the end_call event or the REST end-call
\* operation triggered it
C27_RestEndSameAsEvent ==
    [][\A id \in CallIds :
          /\ Len(SelectCall(actionItems', id)) > Len(SelectCall(actionItems, id))
          /\ HasCall(calls', id)
          => GetCall(calls', id).status = "summarized"]_vars


\* the date an invocation takes for the call date: the one passed, today when none is
CallDay(inv) == IF inv.call_date = NoDate THEN inv.today ELSE inv.call_date[2]

\* the extraction proper yields no item: the transcript is too short, the model fails,
\* the parser raises or finds nothing
YieldsNothing(inv) ==
    LET date == IF inv.call_date = NoDate THEN DateStr(inv.today) ELSE inv.call_date
        parsed == ParseActionItemsResponse(inv.response, date, inv.later)
    IN \/ TooShort(inv.transcript)
       \/ inv.response.kind = "raise"
       \/ parsed.kind = "raise"
       \/ parsed.value = <<>>

\* C28: extract_action_items returns between one and ten items whatever the transcript and
\* the model outcome, and when the extraction yields nothing the result is exactly one
\* default follow-up task owned by the seller role and due 7 days after the call date
C28_NeverEmptyDefaultDue ==
    invoked.op = "extract_action_items"
       => /\ Len(returned.value) \in 1..MaxItems
          /\ YieldsNothing(invoked)
                => /\ Len(returned.value) = 1
                   /\ returned.value[1].owner = "Seller"
                   /\ invoked.call_date # BadDate
                         => returned.value[1].due_date
                               = DateStr(CallDay(invoked) + DefaultDueDays)

\* C29: for a transcript of fewer than 50 characters after stripping, generate_call_summary
\* invokes no model and returns the insufficient-data summary together with exactly one
\* default action item
C29_ShortCircuitWithDefaultItem ==
    invoked.op = "generate_call_summary" /\ TooShort(invoked.transcript)
       => /\ returned.value.llm_calls = 0
          /\ returned.value.kind = "insufficient data"
          /\ Len(returned.value.action_items) = 1

\* the first day strictly after d that falls on weekday wd
NextWeekdayAfter(d, wd) == CHOOSE e \in (d + 1)..(d + 7) : Weekday(e) = wd

\* C30: for every call date, when the model output holds no valid JSON but holds the line
\* "I will send the proposal by Friday", the parser yields an action item whose task
\* contains "send the proposal" and whose due date is the first Friday strictly after the
\* call date
C30_FallbackDueNextFriday ==
    /\ invoked.op = "_parse_action_items_response"
    /\ invoked.response.json = NoJson
    /\ \E i \in DOMAIN SplitLines(invoked.response.text) :
          SplitLines(invoked.response.text)[i] = ProposalLine
    /\ IsDateStr(invoked.call_date)
    => /\ returned.kind = "ok"
       /\ \E i \in DOMAIN returned.value :
             /\ StrContains(returned.value[i].task, SendTheProposal)
             /\ returned.value[i].due_date
                   = DateStr(NextWeekdayAfter(invoked.call_date[2], Friday))


\* what a str names once lowered and stripped
Names(p, word) == ~Falsy(p) /\ ~IsDateStr(p) /\ Strip(StrLower(p)) = word

\* the "N days" values of the modelled raw items, each with its N
DayCounts ==
    {<<<<"i", "n", " ", "3", " ", "d", "a", "y", "s">>, 3>>,
     <<<<"1", " ", "d", "a", "y">>, 1>>,
     <<<<"1", "2", "d", "a", "y", "s">>, 12>>}

\* the values that are no date, no relative word, no weekday name and no "N days"
OtherPhrases == {<<"s", "o", "o", "n">>, <<"n", "u", "l", "l">>, <<>>, NoDate}

\* C31: against the call date d, _parse_due_date returns an absolute date unchanged, gives
\* d for "today", d+1 for "tomorrow", a later date for "next week" and "next month", for
\* each of the seven weekday names the first date strictly after d on that weekday, d+N
\* for "N days", and no due date for every other phrase; it never raises
C31_DueDateResolution ==
    invoked.op = "_parse_due_date" /\ IsDateStr(invoked.call_date)
       => LET d == invoked.call_date[2]
              p == invoked.due_date
              r == returned.value
          IN /\ returned.kind = "ok"
             /\ ~Falsy(p) /\ IsDateStr(p) => r = p
             /\ Names(p, WordToday) => r = DateStr(d)
             /\ Names(p, WordTomorrow) => r = DateStr(d + 1)
             /\ Names(p, WordNextWeek) \/ Names(p, WordNextMonth)
                   => IsDateStr(r) /\ r[2] > d
             /\ \A n \in 1..7 :
                   Names(p, WeekdayNames[n]) => r = DateStr(NextWeekdayAfter(d, n - 1))
             /\ \A dc \in DayCounts : p = dc[1] => r = DateStr(d + dc[2])
             /\ p \in OtherPhrases => r = NoDate


\* the score s a summary reply reports, as the claim has it kept
Kept(s) == IF s < MinScoreKept THEN MinScoreKept ELSE IF s > MaxScoreKept THEN MaxScoreKept ELSE s

\* C32: for every integer deal-health score s the model reports, on the JSON path and on
\* the text path, the summary produced and the summary stored carry min(10, max(1, s)),
\* and every stored summary has a score from 1 to 10
C32_ScoreClamped ==
    invoked.op = "generate_call_summary"
       => /\ \A i \in DOMAIN summaries :
                summaries[i].content \in MinScoreKept..MaxScoreKept
          /\ ~TooShort(invoked.transcript) /\ invoked.summary_reply.reported.type = "int"
                => LET s == invoked.summary_reply.reported.value
                   IN /\ returned.value.deal_health_score = Kept(s)
                      /\ invoked.stored
                            => /\ FindSummary(summaries, SummarizedCall) # 0
                               /\ summaries[FindSummary(summaries, SummarizedCall)].content
                                     = Kept(s)


\* C33: a broadcast delivers its event to every connection that is attached to the call
\* from its invocation to its return, also when another connection of the call is
\* disconnected at one of its suspension points
C33_BroadcastSkipsNoOne ==
    [][\A o \in Conns :
          Completing(o)
             => \A ws \in Elems(bcasts[o].members) :
                   (Attached(active, ws, bcasts[o].call) /\ alive[ws])
                   => InboxHas(inbox, ws, bcasts[o].k)]_vars


\* C34: once a Call is ended or summarized its persisted transcript no longer changes
C34_TranscriptFrozenAfterEnd ==
    [][\A id \in CallIds :
          (HasCall(calls, id) /\ GetCall(calls, id).status \in {"ended", "summarized"})
             => SelectCall(transcripts', id) = SelectCall(transcripts, id)]_vars


\* the step in which summary_ready is broadcast for call id
SummaryReadyFor(id) ==
    /\ Len(bcastLog') = Len(bcastLog) + 1
    /\ bcastLog'[Len(bcastLog')].type = "summary_ready"
    /\ bcastLog'[Len(bcastLog')].call = id

RECURSIVE EventsOf(_, _)
EventsOf(log, c) ==
    IF log = <<>> THEN <<>>
    ELSE IF Head(log).owner = c THEN <<Head(log)>> \o EventsOf(Tail(log), c)
    ELSE EventsOf(Tail(log), c)

\* the last event connection c's handlers broadcast is summary_ready or an error
AnsweredReadyOrError(c) ==
    LET mine == EventsOf(bcastLog, c)
    IN /\ mine # <<>>
       /\ mine[Len(mine)].type \in {"summary_ready", "error"}

\* ... or status_update "summary_pending"
AnsweredOrPending(c) ==
    LET mine == EventsOf(bcastLog, c)
    IN /\ mine # <<>>
       /\ \/ mine[Len(mine)].type = "summary_ready"
          \/ mine[Len(mine)].type = "error" /\ mine[Len(mine)].status \in ExtractionErrors
          \/ mine[Len(mine)].type = "status_update"
                /\ mine[Len(mine)].status = "summary_pending"

\* the step from status_update "ended" to the end of _handle_end_call broadcasts one event
OneAnswer(c) == Len(bcastLog') = Len(bcastLog) + 1 /\ LastEvent.owner = c

OwnersOf(s) == {s[k].call_id : k \in 1..Len(s)}

\* C37: referential integrity: every stored transcript chunk, summary and action item
\* carries the call identifier of a Call record that exists in the repository
C37_ReferentialIntegrity ==
    \A id \in OwnersOf(transcripts) \cup OwnersOf(summaries) \cup OwnersOf(actionItems) :
        HasCall(calls, id)


\* a step of a handler that serves an inbound event of connection c
HandlerStep(c) ==
    \/ HandleStartCall(c)
    \/ HandleAudioChunk(c)
    \/ Transcribed(c)
    \/ HandleQuery(c)
    \/ HandleEndCall(c)
    \/ GenerateSummary(c)
    \/ BroadcastResume(c)

RecordsOf(cs, id) == SelectSeq(cs, LAMBDA r : r.id = id)

AttachedTo(act, id) == IF id \in DOMAIN act THEN act[id] ELSE <<>>

\* no Call record with identifier b is created or changed
RecordUntouched(b) == RecordsOf(calls', b) = RecordsOf(calls, b)

\* what else is stored and attached under call identifier b stays as it is, and no
\* connection of b is sent anything
RestUntouched(b) ==
    /\ SelectCall(transcripts', b) = SelectCall(transcripts, b)
    /\ SelectCall(summaries', b) = SelectCall(summaries, b)
    /\ SelectCall(actionItems', b) = SelectCall(actionItems, b)
    /\ rbuffer'[b] = rbuffer[b]
    /\ rmeta'[b] = rmeta[b]
    /\ rstatus'[b] = rstatus[b]
    /\ AttachedTo(active', b) = AttachedTo(active, b)
    /\ \A d \in Conns : connCall[d] = b => inbox'[d] = inbox[d]

\* C38: per-call isolation: handling an inbound event for call identifier A leaves the
\* Call record, transcript, summary, action items, buffer entry, side-store entries and
\* connection set of every other call identifier B unchanged and sends B's connections
\* nothing
C38_PerCallIsolation ==
    [][\A c \in Conns : HandlerStep(c) =>
          \A b \in CallIds \ {connCall[c]} : RecordUntouched(b) /\ RestUntouched(b)]_vars

\* all of it but the Call record holds
C38_IsolationButCallRecord ==
    [][\A c \in Conns : HandlerStep(c) =>
          \A b \in CallIds \ {connCall[c]} : RestUntouched(b)]_vars


\* the connections attached to call identifier id: connected and not yet removed
AttachedNow(id) == {c \in all_connections : connCall[c] = id}

\* C39: registry invariant: no call identifier maps to an empty connection list,
\* has_connections(call_id) is true exactly when a connection is attached to the call,
\* and once the last connection of a call is removed its entry and its metadata are gone
C39_RegistryInvariant ==
    /\ \A id \in DOMAIN active : active[id] # <<>>
    /\ \A id \in CallIds : HasConnections(active, id) <=> AttachedNow(id) # {}
    /\ \A id \in CallIds :
          AttachedNow(id) = {} => id \notin DOMAIN active /\ id \notin connection_metadata

\* a call lost its last connection while another call still has one
C39_Witness ==
    \E c, d \in Conns :
        /\ pc[c] \notin {"init"}
        /\ c \notin all_connections
        /\ connCall[c] \notin DOMAIN active
        /\ connCall[c] \notin connection_metadata
        /\ d \in all_connections
        /\ HasConnections(active, connCall[d])

\* a connection was evicted by a broadcast and its call keeps another connection
C39_WitnessEvicted ==
    \E c, d \in Conns :
        /\ c # d
        /\ connCall[c] = connCall[d]
        /\ pc[c] \notin {"init", "closed", "raised"}
        /\ c \notin all_connections
        /\ d \in all_connections


====
